---- MODULE Spec2Model ----
(***************************************************************************)
(* Prior-authorization answer service: the actor / critic / refiner        *)
(* pipeline of app/llm_service.py (LLMService) and the evaluation harness  *)
(* of app/evaluation.py (EvaluationPipeline).                              *)
(*                                                                         *)
(* Text is a sequence of one-character strings, so that str.lower,         *)
(* str.strip, str.split, `in` and re.match are computed, not assumed.      *)
(* The fixed label lines of the prompt context are single tokens of that   *)
(* sequence: they hold none of the characters the code searches for.       *)
(* Confidence scores are integers in hundredths (0.8 is 80).               *)
(***************************************************************************)
EXTENDS Integers, Sequences, FiniteSets, TLC

VARIABLES
    \* LLMService.__init__
    client,                 \* TRUE when self.client is an AsyncOpenAI, FALSE when None
    enable_actor_critic,
    enable_confidence,
    backend,                \* what the completion backend may send back
    \* process_questions_batch
    patient,
    questions,
    qi,                     \* position of the for loop (1-based), Len+1 when exhausted
    answered_questions,
    answers_with_confidence,
    batch_pc,
    \* generate_answer_with_confidence
    pc,
    cur_question,
    previous_answers,       \* the dict as it was when patient_context was built
    answer_value,
    reasoning,
    confidence,
    improvements,
    observed,               \* what each coroutine returned for the current question
    trace,                  \* the coroutines entered for the current question, in order
    backend_calls,          \* chat.completions.create calls made for the current question
    ret,                    \* the AnswerWithConfidence returned, or the exception raised
    today,                  \* datetime.now() of the request
    skipped,                \* positions of the questions the loop passed over
    \* _evaluate_condition applied on its own
    cond_in,
    cond_answers,
    cond_out,
    \* EvaluationPipeline.run_full_evaluation
    ti,                     \* position of the loop over self.test_cases (1-based)
    results,
    historical_results,
    eval_pc,
    report,
    completed_runs,         \* history: the run_full_evaluation calls that have returned
    \* one function applied on its own
    fn_call,                \* the function and its arguments
    fn_ret,                 \* what it returned, "none" before the call
    \* main.py
    answers_db,             \* the dict answers_db, in insertion order
    http,                   \* the response to the /answers request
    now_s,                  \* datetime.now(), in whole seconds
    served,                 \* history: the /answers requests answered so far
    \* generate_answers_stream
    stream_pc,
    si,                     \* position of the generator's loop over questions
    yielded,                \* the records yielded so far
    \* continuous_improvement_cycle
    cycle_pc,
    hook_calls,             \* history: the _apply_improvements calls made
    slept,                  \* history: the seconds slept so far
    \* two run_full_evaluation calls on one pipeline
    running,                \* which of the two coroutines holds the event loop
    other                   \* the locals of the coroutine that is not running

svc_vars == <<client, enable_actor_critic, enable_confidence, backend>>
batch_vars == <<patient, questions, qi, answered_questions, answers_with_confidence, batch_pc,
                today, skipped>>
gen_vars == <<pc, cur_question, previous_answers, answer_value, reasoning, confidence,
              improvements, observed, trace, backend_calls, ret>>
cond_vars == <<cond_in, cond_answers, cond_out>>
eval_vars == <<ti, results, historical_results, eval_pc, report, completed_runs>>
pure_vars == <<fn_call, fn_ret>>
api_vars == <<answers_db, http, now_s, served>>
stream_vars == <<stream_pc, si, yielded>>
cycle_vars == <<cycle_pc, hook_calls, slept>>
conc_vars == <<running, other>>
app_vars == <<api_vars, stream_vars, cycle_vars, conc_vars>>
vars == <<svc_vars, batch_vars, gen_vars, cond_vars, eval_vars, pure_vars, app_vars>>

----------------------------------------------------------------------------
(* Text *)

S_true == <<"t", "r", "u", "e">>
S_false == <<"f", "a", "l", "s", "e">>
S_True == <<"T", "r", "u", "e">>
S_False == <<"F", "a", "l", "s", "e">>
S_yes == <<"y", "e", "s">>
S_None == <<"N", "o", "n", "e">>
S_and == <<" ", "a", "n", "d", " ">>
S_bmi == <<"b", "m", "i">>
S_age == <<"a", "g", "e">>

\* Text is a sequence of characters, each a string of one character. A
\* character that this module's syntax cannot hold inside a string is written
\* by its code point, "U+0130".

\* the characters c for which c.lower() is another single character, in code
\* point order, and what c.lower() is
UpperChars ==
    <<"A", "B", "C", "D", "E", "F", "G", "H", "I", "J", "K", "L", "M", "N", "O", "P", "Q", "R",
      "S", "T", "U", "V", "W", "X", "Y", "Z", "À", "Á", "Â", "Ã", "Ä", "Å", "Æ", "Ç", "È", "É",
      "Ê", "Ë", "Ì", "Í", "Î", "Ï", "Ð", "Ñ", "Ò", "Ó", "Ô", "Õ", "Ö", "Ø", "Ù", "Ú", "Û", "Ü",
      "Ý", "Þ", "U+0100", "U+0102", "U+0104", "U+0106", "U+0108", "U+010A", "U+010C", "U+010E",
      "U+0110", "U+0112", "U+0114", "U+0116", "U+0118", "U+011A", "U+011C", "U+011E", "U+0120",
      "U+0122", "U+0124", "U+0126", "U+0128", "U+012A", "U+012C", "U+012E", "U+0132", "U+0134",
      "U+0136", "U+0139", "U+013B", "U+013D", "U+013F", "U+0141", "U+0143", "U+0145", "U+0147",
      "U+014A", "U+014C", "U+014E", "U+0150", "U+0152", "U+0154", "U+0156", "U+0158", "U+015A",
      "U+015C", "U+015E", "U+0160", "U+0162", "U+0164", "U+0166", "U+0168", "U+016A", "U+016C",
      "U+016E", "U+0170", "U+0172", "U+0174", "U+0176", "U+0178", "U+0179", "U+017B", "U+017D",
      "Ɓ", "Ƃ", "Ƅ", "Ɔ", "Ƈ", "Ɖ", "Ɗ", "Ƌ", "Ǝ", "Ə", "Ɛ", "Ƒ", "Ɠ", "Ɣ", "Ɩ", "Ɨ", "Ƙ", "Ɯ",
      "Ɲ", "Ɵ", "Ơ", "Ƣ", "Ƥ", "Ʀ", "Ƨ", "Ʃ", "Ƭ", "Ʈ", "Ư", "Ʊ", "Ʋ", "Ƴ", "Ƶ", "Ʒ", "Ƹ", "Ƽ",
      "Ǆ", "ǅ", "Ǉ", "ǈ", "Ǌ", "ǋ", "Ǎ", "Ǐ", "Ǒ", "Ǔ", "Ǖ", "Ǘ", "Ǚ", "Ǜ", "Ǟ", "Ǡ", "Ǣ", "Ǥ",
      "Ǧ", "Ǩ", "Ǫ", "Ǭ", "Ǯ", "Ǳ", "ǲ", "Ǵ", "Ƕ", "Ƿ", "Ǹ", "Ǻ", "Ǽ", "Ǿ", "U+0200", "U+0202",
      "U+0204", "U+0206", "U+0208", "U+020A", "U+020C", "U+020E", "U+0210", "U+0212", "U+0214",
      "U+0216", "U+0218", "U+021A", "U+021C", "U+021E", "U+0220", "U+0222", "U+0224", "U+0226",
      "U+0228", "U+022A", "U+022C", "U+022E", "U+0230", "U+0232", "U+023A", "U+023B", "U+023D",
      "U+023E", "U+0241", "U+0243", "U+0244", "U+0245", "U+0246", "U+0248", "U+024A", "U+024C",
      "U+024E", "U+0370", "U+0372", "U+0376", "U+037F", "Ά", "Έ", "Ή", "Ί", "Ό", "Ύ", "Ώ", "Α",
      "Β", "Γ", "Δ", "Ε", "Ζ", "Η", "Θ", "Ι", "Κ", "Λ", "Μ", "Ν", "Ξ", "Ο", "Π", "Ρ", "Σ", "Τ",
      "Υ", "Φ", "Χ", "Ψ", "Ω", "Ϊ", "Ϋ", "Ϗ", "Ϙ", "Ϛ", "Ϝ", "Ϟ", "Ϡ", "Ϣ", "Ϥ", "Ϧ", "Ϩ", "Ϫ",
      "Ϭ", "Ϯ", "ϴ", "Ϸ", "Ϲ", "Ϻ", "Ͻ", "Ͼ", "Ͽ", "U+0400", "U+0401", "U+0402", "U+0403",
      "U+0404", "U+0405", "U+0406", "U+0407", "U+0408", "U+0409", "U+040A", "U+040B", "U+040C",
      "U+040D", "U+040E", "U+040F", "U+0410", "U+0411", "U+0412", "U+0413", "U+0414", "U+0415",
      "U+0416", "U+0417", "U+0418", "U+0419", "U+041A", "U+041B", "U+041C", "U+041D", "U+041E",
      "U+041F", "U+0420", "U+0421", "U+0422", "U+0423", "U+0424", "U+0425", "U+0426", "U+0427",
      "U+0428", "U+0429", "U+042A", "U+042B", "U+042C", "U+042D", "U+042E", "U+042F", "U+0460",
      "U+0462", "U+0464", "U+0466", "U+0468", "U+046A", "U+046C", "U+046E", "U+0470", "U+0472",
      "U+0474", "U+0476", "U+0478", "U+047A", "U+047C", "U+047E", "Ҁ", "Ҋ", "Ҍ", "Ҏ", "Ґ", "Ғ",
      "Ҕ", "Җ", "Ҙ", "Қ", "Ҝ", "Ҟ", "Ҡ", "Ң", "Ҥ", "Ҧ", "Ҩ", "Ҫ", "Ҭ", "Ү", "Ұ", "Ҳ", "Ҵ", "Ҷ",
      "Ҹ", "Һ", "Ҽ", "Ҿ", "Ӏ", "Ӂ", "Ӄ", "Ӆ", "Ӈ", "Ӊ", "Ӌ", "Ӎ", "Ӑ", "Ӓ", "Ӕ", "Ӗ", "Ә", "Ӛ",
      "Ӝ", "Ӟ", "Ӡ", "Ӣ", "Ӥ", "Ӧ", "Ө", "Ӫ", "Ӭ", "Ӯ", "Ӱ", "Ӳ", "Ӵ", "Ӷ", "Ӹ", "Ӻ", "Ӽ", "Ӿ",
      "U+0500", "U+0502", "U+0504", "U+0506", "U+0508", "U+050A", "U+050C", "U+050E", "U+0510",
      "U+0512", "U+0514", "U+0516", "U+0518", "U+051A", "U+051C", "U+051E", "U+0520", "U+0522",
      "U+0524", "U+0526", "U+0528", "U+052A", "U+052C", "U+052E", "U+0531", "U+0532", "U+0533",
      "U+0534", "U+0535", "U+0536", "U+0537", "U+0538", "U+0539", "U+053A", "U+053B", "U+053C",
      "U+053D", "U+053E", "U+053F", "U+0540", "U+0541", "U+0542", "U+0543", "U+0544", "U+0545",
      "U+0546", "U+0547", "U+0548", "U+0549", "U+054A", "U+054B", "U+054C", "U+054D", "U+054E",
      "U+054F", "U+0550", "U+0551", "U+0552", "U+0553", "U+0554", "U+0555", "U+0556", "Ⴀ", "Ⴁ",
      "Ⴂ", "Ⴃ", "Ⴄ", "Ⴅ", "Ⴆ", "Ⴇ", "Ⴈ", "Ⴉ", "Ⴊ", "Ⴋ", "Ⴌ", "Ⴍ", "Ⴎ", "Ⴏ", "Ⴐ", "Ⴑ", "Ⴒ", "Ⴓ",
      "Ⴔ", "Ⴕ", "Ⴖ", "Ⴗ", "Ⴘ", "Ⴙ", "Ⴚ", "Ⴛ", "Ⴜ", "Ⴝ", "Ⴞ", "Ⴟ", "Ⴠ", "Ⴡ", "Ⴢ", "Ⴣ", "Ⴤ", "Ⴥ",
      "Ⴧ", "Ⴭ", "Ꭰ", "Ꭱ", "Ꭲ", "Ꭳ", "Ꭴ", "Ꭵ", "Ꭶ", "Ꭷ", "Ꭸ", "Ꭹ", "Ꭺ", "Ꭻ", "Ꭼ", "Ꭽ", "Ꭾ", "Ꭿ",
      "Ꮀ", "Ꮁ", "Ꮂ", "Ꮃ", "Ꮄ", "Ꮅ", "Ꮆ", "Ꮇ", "Ꮈ", "Ꮉ", "Ꮊ", "Ꮋ", "Ꮌ", "Ꮍ", "Ꮎ", "Ꮏ", "Ꮐ", "Ꮑ",
      "Ꮒ", "Ꮓ", "Ꮔ", "Ꮕ", "Ꮖ", "Ꮗ", "Ꮘ", "Ꮙ", "Ꮚ", "Ꮛ", "Ꮜ", "Ꮝ", "Ꮞ", "Ꮟ", "Ꮠ", "Ꮡ", "Ꮢ", "Ꮣ",
      "Ꮤ", "Ꮥ", "Ꮦ", "Ꮧ", "Ꮨ", "Ꮩ", "Ꮪ", "Ꮫ", "Ꮬ", "Ꮭ", "Ꮮ", "Ꮯ", "Ꮰ", "Ꮱ", "Ꮲ", "Ꮳ", "Ꮴ", "Ꮵ",
      "Ꮶ", "Ꮷ", "Ꮸ", "Ꮹ", "Ꮺ", "Ꮻ", "Ꮼ", "Ꮽ", "Ꮾ", "Ꮿ", "Ᏸ", "Ᏹ", "Ᏺ", "Ᏻ", "Ᏼ", "Ᏽ", "Ა", "Ბ",
      "Გ", "Დ", "Ე", "Ვ", "Ზ", "Თ", "Ი", "Კ", "Ლ", "Მ", "Ნ", "Ო", "Პ", "Ჟ", "Რ", "Ს", "Ტ", "Უ",
      "Ფ", "Ქ", "Ღ", "Ყ", "Შ", "Ჩ", "Ც", "Ძ", "Წ", "Ჭ", "Ხ", "Ჯ", "Ჰ", "Ჱ", "Ჲ", "Ჳ", "Ჴ", "Ჵ",
      "Ჶ", "Ჷ", "Ჸ", "Ჹ", "Ჺ", "Ჽ", "Ჾ", "Ჿ", "U+1E00", "U+1E02", "U+1E04", "U+1E06", "U+1E08",
      "U+1E0A", "U+1E0C", "U+1E0E", "U+1E10", "U+1E12", "U+1E14", "U+1E16", "U+1E18", "U+1E1A",
      "U+1E1C", "U+1E1E", "U+1E20", "U+1E22", "U+1E24", "U+1E26", "U+1E28", "U+1E2A", "U+1E2C",
      "U+1E2E", "U+1E30", "U+1E32", "U+1E34", "U+1E36", "U+1E38", "U+1E3A", "U+1E3C", "U+1E3E",
      "U+1E40", "U+1E42", "U+1E44", "U+1E46", "U+1E48", "U+1E4A", "U+1E4C", "U+1E4E", "U+1E50",
      "U+1E52", "U+1E54", "U+1E56", "U+1E58", "U+1E5A", "U+1E5C", "U+1E5E", "U+1E60", "U+1E62",
      "U+1E64", "U+1E66", "U+1E68", "U+1E6A", "U+1E6C", "U+1E6E", "U+1E70", "U+1E72", "U+1E74",
      "U+1E76", "U+1E78", "U+1E7A", "U+1E7C", "U+1E7E", "Ẁ", "Ẃ", "Ẅ", "Ẇ", "Ẉ", "Ẋ", "Ẍ", "Ẏ",
      "Ẑ", "Ẓ", "Ẕ", "ẞ", "Ạ", "Ả", "Ấ", "Ầ", "Ẩ", "Ẫ", "Ậ", "Ắ", "Ằ", "Ẳ", "Ẵ", "Ặ", "Ẹ", "Ẻ",
      "Ẽ", "Ế", "Ề", "Ể", "Ễ", "Ệ", "Ỉ", "Ị", "Ọ", "Ỏ", "Ố", "Ồ", "Ổ", "Ỗ", "Ộ", "Ớ", "Ờ", "Ở",
      "Ỡ", "Ợ", "Ụ", "Ủ", "Ứ", "Ừ", "Ử", "Ữ", "Ự", "Ỳ", "Ỵ", "Ỷ", "Ỹ", "Ỻ", "Ỽ", "Ỿ", "U+1F08",
      "U+1F09", "U+1F0A", "U+1F0B", "U+1F0C", "U+1F0D", "U+1F0E", "U+1F0F", "U+1F18", "U+1F19",
      "U+1F1A", "U+1F1B", "U+1F1C", "U+1F1D", "U+1F28", "U+1F29", "U+1F2A", "U+1F2B", "U+1F2C",
      "U+1F2D", "U+1F2E", "U+1F2F", "U+1F38", "U+1F39", "U+1F3A", "U+1F3B", "U+1F3C", "U+1F3D",
      "U+1F3E", "U+1F3F", "U+1F48", "U+1F49", "U+1F4A", "U+1F4B", "U+1F4C", "U+1F4D", "U+1F59",
      "U+1F5B", "U+1F5D", "U+1F5F", "U+1F68", "U+1F69", "U+1F6A", "U+1F6B", "U+1F6C", "U+1F6D",
      "U+1F6E", "U+1F6F", "ᾈ", "ᾉ", "ᾊ", "ᾋ", "ᾌ", "ᾍ", "ᾎ", "ᾏ", "ᾘ", "ᾙ", "ᾚ", "ᾛ", "ᾜ", "ᾝ",
      "ᾞ", "ᾟ", "ᾨ", "ᾩ", "ᾪ", "ᾫ", "ᾬ", "ᾭ", "ᾮ", "ᾯ", "Ᾰ", "Ᾱ", "Ὰ", "Ά", "ᾼ", "Ὲ", "Έ", "Ὴ",
      "Ή", "ῌ", "Ῐ", "Ῑ", "Ὶ", "Ί", "Ῠ", "Ῡ", "Ὺ", "Ύ", "Ῥ", "Ὸ", "Ό", "Ὼ", "Ώ", "ῼ", "U+2126",
      "U+212A", "U+212B", "U+2132", "U+2160", "U+2161", "U+2162", "U+2163", "U+2164", "U+2165",
      "U+2166", "U+2167", "U+2168", "U+2169", "U+216A", "U+216B", "U+216C", "U+216D", "U+216E",
      "U+216F", "Ↄ", "Ⓐ", "Ⓑ", "Ⓒ", "Ⓓ", "Ⓔ", "Ⓕ", "Ⓖ", "Ⓗ", "Ⓘ", "Ⓙ", "Ⓚ", "Ⓛ", "Ⓜ", "Ⓝ", "Ⓞ",
      "Ⓟ", "Ⓠ", "Ⓡ", "Ⓢ", "Ⓣ", "Ⓤ", "Ⓥ", "Ⓦ", "Ⓧ", "Ⓨ", "Ⓩ", "U+2C00", "U+2C01", "U+2C02",
      "U+2C03", "U+2C04", "U+2C05", "U+2C06", "U+2C07", "U+2C08", "U+2C09", "U+2C0A", "U+2C0B",
      "U+2C0C", "U+2C0D", "U+2C0E", "U+2C0F", "U+2C10", "U+2C11", "U+2C12", "U+2C13", "U+2C14",
      "U+2C15", "U+2C16", "U+2C17", "U+2C18", "U+2C19", "U+2C1A", "U+2C1B", "U+2C1C", "U+2C1D",
      "U+2C1E", "U+2C1F", "U+2C20", "U+2C21", "U+2C22", "U+2C23", "U+2C24", "U+2C25", "U+2C26",
      "U+2C27", "U+2C28", "U+2C29", "U+2C2A", "U+2C2B", "U+2C2C", "U+2C2D", "U+2C2E", "U+2C2F",
      "U+2C60", "U+2C62", "U+2C63", "U+2C64", "U+2C67", "U+2C69", "U+2C6B", "U+2C6D", "U+2C6E",
      "U+2C6F", "U+2C70", "U+2C72", "U+2C75", "U+2C7E", "U+2C7F", "Ⲁ", "Ⲃ", "Ⲅ", "Ⲇ", "Ⲉ", "Ⲋ",
      "Ⲍ", "Ⲏ", "Ⲑ", "Ⲓ", "Ⲕ", "Ⲗ", "Ⲙ", "Ⲛ", "Ⲝ", "Ⲟ", "Ⲡ", "Ⲣ", "Ⲥ", "Ⲧ", "Ⲩ", "Ⲫ", "Ⲭ", "Ⲯ",
      "Ⲱ", "Ⲳ", "Ⲵ", "Ⲷ", "Ⲹ", "Ⲻ", "Ⲽ", "Ⲿ", "Ⳁ", "Ⳃ", "Ⳅ", "Ⳇ", "Ⳉ", "Ⳋ", "Ⳍ", "Ⳏ", "Ⳑ", "Ⳓ",
      "Ⳕ", "Ⳗ", "Ⳙ", "Ⳛ", "Ⳝ", "Ⳟ", "Ⳡ", "Ⳣ", "Ⳬ", "Ⳮ", "Ⳳ", "U+A640", "U+A642", "U+A644",
      "U+A646", "U+A648", "U+A64A", "U+A64C", "U+A64E", "U+A650", "U+A652", "U+A654", "U+A656",
      "U+A658", "U+A65A", "U+A65C", "U+A65E", "U+A660", "U+A662", "U+A664", "U+A666", "U+A668",
      "U+A66A", "U+A66C", "Ꚁ", "Ꚃ", "Ꚅ", "Ꚇ", "Ꚉ", "Ꚋ", "Ꚍ", "Ꚏ", "Ꚑ", "Ꚓ", "Ꚕ", "Ꚗ", "Ꚙ", "Ꚛ",
      "U+A722", "U+A724", "U+A726", "U+A728", "U+A72A", "U+A72C", "U+A72E", "U+A732", "U+A734",
      "U+A736", "U+A738", "U+A73A", "U+A73C", "U+A73E", "U+A740", "U+A742", "U+A744", "U+A746",
      "U+A748", "U+A74A", "U+A74C", "U+A74E", "U+A750", "U+A752", "U+A754", "U+A756", "U+A758",
      "U+A75A", "U+A75C", "U+A75E", "U+A760", "U+A762", "U+A764", "U+A766", "U+A768", "U+A76A",
      "U+A76C", "U+A76E", "U+A779", "U+A77B", "U+A77D", "U+A77E", "Ꞁ", "Ꞃ", "Ꞅ", "Ꞇ", "Ꞌ", "Ɥ",
      "Ꞑ", "Ꞓ", "Ꞗ", "Ꞙ", "Ꞛ", "Ꞝ", "Ꞟ", "Ꞡ", "Ꞣ", "Ꞥ", "Ꞧ", "Ꞩ", "Ɦ", "Ɜ", "Ɡ", "Ɬ", "Ɪ", "Ʞ",
      "Ʇ", "Ʝ", "Ꭓ", "Ꞵ", "Ꞷ", "Ꞹ", "Ꞻ", "Ꞽ", "Ꞿ", "Ꟁ", "Ꟃ", "Ꞔ", "Ʂ", "Ᶎ", "Ꟈ", "Ꟊ", "Ꟑ", "Ꟗ",
      "Ꟙ", "Ꟶ", "U+FF21", "U+FF22", "U+FF23", "U+FF24", "U+FF25", "U+FF26", "U+FF27", "U+FF28",
      "U+FF29", "U+FF2A", "U+FF2B", "U+FF2C", "U+FF2D", "U+FF2E", "U+FF2F", "U+FF30", "U+FF31",
      "U+FF32", "U+FF33", "U+FF34", "U+FF35", "U+FF36", "U+FF37", "U+FF38", "U+FF39", "U+FF3A",
      "U+10400", "U+10401", "U+10402", "U+10403", "U+10404", "U+10405", "U+10406", "U+10407",
      "U+10408", "U+10409", "U+1040A", "U+1040B", "U+1040C", "U+1040D", "U+1040E", "U+1040F",
      "U+10410", "U+10411", "U+10412", "U+10413", "U+10414", "U+10415", "U+10416", "U+10417",
      "U+10418", "U+10419", "U+1041A", "U+1041B", "U+1041C", "U+1041D", "U+1041E", "U+1041F",
      "U+10420", "U+10421", "U+10422", "U+10423", "U+10424", "U+10425", "U+10426", "U+10427",
      "U+104B0", "U+104B1", "U+104B2", "U+104B3", "U+104B4", "U+104B5", "U+104B6", "U+104B7",
      "U+104B8", "U+104B9", "U+104BA", "U+104BB", "U+104BC", "U+104BD", "U+104BE", "U+104BF",
      "U+104C0", "U+104C1", "U+104C2", "U+104C3", "U+104C4", "U+104C5", "U+104C6", "U+104C7",
      "U+104C8", "U+104C9", "U+104CA", "U+104CB", "U+104CC", "U+104CD", "U+104CE", "U+104CF",
      "U+104D0", "U+104D1", "U+104D2", "U+104D3", "U+10570", "U+10571", "U+10572", "U+10573",
      "U+10574", "U+10575", "U+10576", "U+10577", "U+10578", "U+10579", "U+1057A", "U+1057C",
      "U+1057D", "U+1057E", "U+1057F", "U+10580", "U+10581", "U+10582", "U+10583", "U+10584",
      "U+10585", "U+10586", "U+10587", "U+10588", "U+10589", "U+1058A", "U+1058C", "U+1058D",
      "U+1058E", "U+1058F", "U+10590", "U+10591", "U+10592", "U+10594", "U+10595", "U+10C80",
      "U+10C81", "U+10C82", "U+10C83", "U+10C84", "U+10C85", "U+10C86", "U+10C87", "U+10C88",
      "U+10C89", "U+10C8A", "U+10C8B", "U+10C8C", "U+10C8D", "U+10C8E", "U+10C8F", "U+10C90",
      "U+10C91", "U+10C92", "U+10C93", "U+10C94", "U+10C95", "U+10C96", "U+10C97", "U+10C98",
      "U+10C99", "U+10C9A", "U+10C9B", "U+10C9C", "U+10C9D", "U+10C9E", "U+10C9F", "U+10CA0",
      "U+10CA1", "U+10CA2", "U+10CA3", "U+10CA4", "U+10CA5", "U+10CA6", "U+10CA7", "U+10CA8",
      "U+10CA9", "U+10CAA", "U+10CAB", "U+10CAC", "U+10CAD", "U+10CAE", "U+10CAF", "U+10CB0",
      "U+10CB1", "U+10CB2", "U+118A0", "U+118A1", "U+118A2", "U+118A3", "U+118A4", "U+118A5",
      "U+118A6", "U+118A7", "U+118A8", "U+118A9", "U+118AA", "U+118AB", "U+118AC", "U+118AD",
      "U+118AE", "U+118AF", "U+118B0", "U+118B1", "U+118B2", "U+118B3", "U+118B4", "U+118B5",
      "U+118B6", "U+118B7", "U+118B8", "U+118B9", "U+118BA", "U+118BB", "U+118BC", "U+118BD",
      "U+118BE", "U+118BF", "U+16E40", "U+16E41", "U+16E42", "U+16E43", "U+16E44", "U+16E45",
      "U+16E46", "U+16E47", "U+16E48", "U+16E49", "U+16E4A", "U+16E4B", "U+16E4C", "U+16E4D",
      "U+16E4E", "U+16E4F", "U+16E50", "U+16E51", "U+16E52", "U+16E53", "U+16E54", "U+16E55",
      "U+16E56", "U+16E57", "U+16E58", "U+16E59", "U+16E5A", "U+16E5B", "U+16E5C", "U+16E5D",
      "U+16E5E", "U+16E5F", "U+1E900", "U+1E901", "U+1E902", "U+1E903", "U+1E904", "U+1E905",
      "U+1E906", "U+1E907", "U+1E908", "U+1E909", "U+1E90A", "U+1E90B", "U+1E90C", "U+1E90D",
      "U+1E90E", "U+1E90F", "U+1E910", "U+1E911", "U+1E912", "U+1E913", "U+1E914", "U+1E915",
      "U+1E916", "U+1E917", "U+1E918", "U+1E919", "U+1E91A", "U+1E91B", "U+1E91C", "U+1E91D",
      "U+1E91E", "U+1E91F", "U+1E920", "U+1E921">>

LowerChars ==
    <<"a", "b", "c", "d", "e", "f", "g", "h", "i", "j", "k", "l", "m", "n", "o", "p", "q", "r",
      "s", "t", "u", "v", "w", "x", "y", "z", "à", "á", "â", "ã", "ä", "å", "æ", "ç", "è", "é",
      "ê", "ë", "ì", "í", "î", "ï", "ð", "ñ", "ò", "ó", "ô", "õ", "ö", "ø", "ù", "ú", "û", "ü",
      "ý", "þ", "U+0101", "U+0103", "U+0105", "U+0107", "U+0109", "U+010B", "U+010D", "U+010F",
      "U+0111", "U+0113", "U+0115", "U+0117", "U+0119", "U+011B", "U+011D", "U+011F", "U+0121",
      "U+0123", "U+0125", "U+0127", "U+0129", "U+012B", "U+012D", "U+012F", "U+0133", "U+0135",
      "U+0137", "U+013A", "U+013C", "U+013E", "U+0140", "U+0142", "U+0144", "U+0146", "U+0148",
      "U+014B", "U+014D", "U+014F", "U+0151", "U+0153", "U+0155", "U+0157", "U+0159", "U+015B",
      "U+015D", "U+015F", "U+0161", "U+0163", "U+0165", "U+0167", "U+0169", "U+016B", "U+016D",
      "U+016F", "U+0171", "U+0173", "U+0175", "U+0177", "ÿ", "U+017A", "U+017C", "U+017E",
      "U+0253", "ƃ", "ƅ", "U+0254", "ƈ", "U+0256", "U+0257", "ƌ", "ǝ", "U+0259", "U+025B", "ƒ",
      "U+0260", "U+0263", "U+0269", "U+0268", "ƙ", "U+026F", "U+0272", "U+0275", "ơ", "ƣ", "ƥ",
      "ʀ", "ƨ", "ʃ", "ƭ", "ʈ", "ư", "ʊ", "ʋ", "ƴ", "ƶ", "ʒ", "ƹ", "ƽ", "ǆ", "ǆ", "ǉ", "ǉ", "ǌ",
      "ǌ", "ǎ", "ǐ", "ǒ", "ǔ", "ǖ", "ǘ", "ǚ", "ǜ", "ǟ", "ǡ", "ǣ", "ǥ", "ǧ", "ǩ", "ǫ", "ǭ", "ǯ",
      "ǳ", "ǳ", "ǵ", "ƕ", "ƿ", "ǹ", "ǻ", "ǽ", "ǿ", "U+0201", "U+0203", "U+0205", "U+0207",
      "U+0209", "U+020B", "U+020D", "U+020F", "U+0211", "U+0213", "U+0215", "U+0217", "U+0219",
      "U+021B", "U+021D", "U+021F", "ƞ", "U+0223", "U+0225", "U+0227", "U+0229", "U+022B",
      "U+022D", "U+022F", "U+0231", "U+0233", "U+2C65", "U+023C", "ƚ", "U+2C66", "U+0242", "ƀ",
      "ʉ", "ʌ", "U+0247", "U+0249", "U+024B", "U+024D", "U+024F", "U+0371", "U+0373", "U+0377",
      "ϳ", "ά", "έ", "ή", "ί", "ό", "ύ", "ώ", "α", "β", "γ", "δ", "ε", "ζ", "η", "θ", "ι", "κ",
      "λ", "μ", "ν", "ξ", "ο", "π", "ρ", "σ", "τ", "υ", "φ", "χ", "ψ", "ω", "ϊ", "ϋ", "ϗ", "ϙ",
      "ϛ", "ϝ", "ϟ", "ϡ", "ϣ", "ϥ", "ϧ", "ϩ", "ϫ", "ϭ", "ϯ", "θ", "ϸ", "ϲ", "ϻ", "U+037B",
      "U+037C", "U+037D", "U+0450", "U+0451", "U+0452", "U+0453", "U+0454", "U+0455", "U+0456",
      "U+0457", "U+0458", "U+0459", "U+045A", "U+045B", "U+045C", "U+045D", "U+045E", "U+045F",
      "U+0430", "U+0431", "U+0432", "U+0433", "U+0434", "U+0435", "U+0436", "U+0437", "U+0438",
      "U+0439", "U+043A", "U+043B", "U+043C", "U+043D", "U+043E", "U+043F", "U+0440", "U+0441",
      "U+0442", "U+0443", "U+0444", "U+0445", "U+0446", "U+0447", "U+0448", "U+0449", "U+044A",
      "U+044B", "U+044C", "U+044D", "U+044E", "U+044F", "U+0461", "U+0463", "U+0465", "U+0467",
      "U+0469", "U+046B", "U+046D", "U+046F", "U+0471", "U+0473", "U+0475", "U+0477", "U+0479",
      "U+047B", "U+047D", "U+047F", "ҁ", "ҋ", "ҍ", "ҏ", "ґ", "ғ", "ҕ", "җ", "ҙ", "қ", "ҝ", "ҟ",
      "ҡ", "ң", "ҥ", "ҧ", "ҩ", "ҫ", "ҭ", "ү", "ұ", "ҳ", "ҵ", "ҷ", "ҹ", "һ", "ҽ", "ҿ", "ӏ", "ӂ",
      "ӄ", "ӆ", "ӈ", "ӊ", "ӌ", "ӎ", "ӑ", "ӓ", "ӕ", "ӗ", "ә", "ӛ", "ӝ", "ӟ", "ӡ", "ӣ", "ӥ", "ӧ",
      "ө", "ӫ", "ӭ", "ӯ", "ӱ", "ӳ", "ӵ", "ӷ", "ӹ", "ӻ", "ӽ", "ӿ", "U+0501", "U+0503", "U+0505",
      "U+0507", "U+0509", "U+050B", "U+050D", "U+050F", "U+0511", "U+0513", "U+0515", "U+0517",
      "U+0519", "U+051B", "U+051D", "U+051F", "U+0521", "U+0523", "U+0525", "U+0527", "U+0529",
      "U+052B", "U+052D", "U+052F", "U+0561", "U+0562", "U+0563", "U+0564", "U+0565", "U+0566",
      "U+0567", "U+0568", "U+0569", "U+056A", "U+056B", "U+056C", "U+056D", "U+056E", "U+056F",
      "U+0570", "U+0571", "U+0572", "U+0573", "U+0574", "U+0575", "U+0576", "U+0577", "U+0578",
      "U+0579", "U+057A", "U+057B", "U+057C", "U+057D", "U+057E", "U+057F", "ր", "ց", "ւ", "փ",
      "ք", "օ", "ֆ", "U+2D00", "U+2D01", "U+2D02", "U+2D03", "U+2D04", "U+2D05", "U+2D06",
      "U+2D07", "U+2D08", "U+2D09", "U+2D0A", "U+2D0B", "U+2D0C", "U+2D0D", "U+2D0E", "U+2D0F",
      "U+2D10", "U+2D11", "U+2D12", "U+2D13", "U+2D14", "U+2D15", "U+2D16", "U+2D17", "U+2D18",
      "U+2D19", "U+2D1A", "U+2D1B", "U+2D1C", "U+2D1D", "U+2D1E", "U+2D1F", "U+2D20", "U+2D21",
      "U+2D22", "U+2D23", "U+2D24", "U+2D25", "U+2D27", "U+2D2D", "U+AB70", "U+AB71", "U+AB72",
      "U+AB73", "U+AB74", "U+AB75", "U+AB76", "U+AB77", "U+AB78", "U+AB79", "U+AB7A", "U+AB7B",
      "U+AB7C", "U+AB7D", "U+AB7E", "U+AB7F", "ꮀ", "ꮁ", "ꮂ", "ꮃ", "ꮄ", "ꮅ", "ꮆ", "ꮇ", "ꮈ", "ꮉ",
      "ꮊ", "ꮋ", "ꮌ", "ꮍ", "ꮎ", "ꮏ", "ꮐ", "ꮑ", "ꮒ", "ꮓ", "ꮔ", "ꮕ", "ꮖ", "ꮗ", "ꮘ", "ꮙ", "ꮚ", "ꮛ",
      "ꮜ", "ꮝ", "ꮞ", "ꮟ", "ꮠ", "ꮡ", "ꮢ", "ꮣ", "ꮤ", "ꮥ", "ꮦ", "ꮧ", "ꮨ", "ꮩ", "ꮪ", "ꮫ", "ꮬ", "ꮭ",
      "ꮮ", "ꮯ", "ꮰ", "ꮱ", "ꮲ", "ꮳ", "ꮴ", "ꮵ", "ꮶ", "ꮷ", "ꮸ", "ꮹ", "ꮺ", "ꮻ", "ꮼ", "ꮽ", "ꮾ", "ꮿ",
      "ᏸ", "ᏹ", "ᏺ", "ᏻ", "ᏼ", "ᏽ", "ა", "ბ", "გ", "დ", "ე", "ვ", "ზ", "თ", "ი", "კ", "ლ", "მ",
      "ნ", "ო", "პ", "ჟ", "რ", "ს", "ტ", "უ", "ფ", "ქ", "ღ", "ყ", "შ", "ჩ", "ც", "ძ", "წ", "ჭ",
      "ხ", "ჯ", "ჰ", "ჱ", "ჲ", "ჳ", "ჴ", "ჵ", "ჶ", "ჷ", "ჸ", "ჹ", "ჺ", "ჽ", "ჾ", "ჿ", "U+1E01",
      "U+1E03", "U+1E05", "U+1E07", "U+1E09", "U+1E0B", "U+1E0D", "U+1E0F", "U+1E11", "U+1E13",
      "U+1E15", "U+1E17", "U+1E19", "U+1E1B", "U+1E1D", "U+1E1F", "U+1E21", "U+1E23", "U+1E25",
      "U+1E27", "U+1E29", "U+1E2B", "U+1E2D", "U+1E2F", "U+1E31", "U+1E33", "U+1E35", "U+1E37",
      "U+1E39", "U+1E3B", "U+1E3D", "U+1E3F", "U+1E41", "U+1E43", "U+1E45", "U+1E47", "U+1E49",
      "U+1E4B", "U+1E4D", "U+1E4F", "U+1E51", "U+1E53", "U+1E55", "U+1E57", "U+1E59", "U+1E5B",
      "U+1E5D", "U+1E5F", "U+1E61", "U+1E63", "U+1E65", "U+1E67", "U+1E69", "U+1E6B", "U+1E6D",
      "U+1E6F", "U+1E71", "U+1E73", "U+1E75", "U+1E77", "U+1E79", "U+1E7B", "U+1E7D", "U+1E7F",
      "ẁ", "ẃ", "ẅ", "ẇ", "ẉ", "ẋ", "ẍ", "ẏ", "ẑ", "ẓ", "ẕ", "ß", "ạ", "ả", "ấ", "ầ", "ẩ", "ẫ",
      "ậ", "ắ", "ằ", "ẳ", "ẵ", "ặ", "ẹ", "ẻ", "ẽ", "ế", "ề", "ể", "ễ", "ệ", "ỉ", "ị", "ọ", "ỏ",
      "ố", "ồ", "ổ", "ỗ", "ộ", "ớ", "ờ", "ở", "ỡ", "ợ", "ụ", "ủ", "ứ", "ừ", "ử", "ữ", "ự", "ỳ",
      "ỵ", "ỷ", "ỹ", "ỻ", "ỽ", "ỿ", "U+1F00", "U+1F01", "U+1F02", "U+1F03", "U+1F04", "U+1F05",
      "U+1F06", "U+1F07", "U+1F10", "U+1F11", "U+1F12", "U+1F13", "U+1F14", "U+1F15", "U+1F20",
      "U+1F21", "U+1F22", "U+1F23", "U+1F24", "U+1F25", "U+1F26", "U+1F27", "U+1F30", "U+1F31",
      "U+1F32", "U+1F33", "U+1F34", "U+1F35", "U+1F36", "U+1F37", "U+1F40", "U+1F41", "U+1F42",
      "U+1F43", "U+1F44", "U+1F45", "U+1F51", "U+1F53", "U+1F55", "U+1F57", "U+1F60", "U+1F61",
      "U+1F62", "U+1F63", "U+1F64", "U+1F65", "U+1F66", "U+1F67", "ᾀ", "ᾁ", "ᾂ", "ᾃ", "ᾄ", "ᾅ",
      "ᾆ", "ᾇ", "ᾐ", "ᾑ", "ᾒ", "ᾓ", "ᾔ", "ᾕ", "ᾖ", "ᾗ", "ᾠ", "ᾡ", "ᾢ", "ᾣ", "ᾤ", "ᾥ", "ᾦ", "ᾧ",
      "ᾰ", "ᾱ", "U+1F70", "U+1F71", "ᾳ", "U+1F72", "U+1F73", "U+1F74", "U+1F75", "ῃ", "ῐ", "ῑ",
      "U+1F76", "U+1F77", "ῠ", "ῡ", "U+1F7A", "U+1F7B", "ῥ", "U+1F78", "U+1F79", "U+1F7C",
      "U+1F7D", "ῳ", "ω", "k", "å", "U+214E", "U+2170", "U+2171", "U+2172", "U+2173", "U+2174",
      "U+2175", "U+2176", "U+2177", "U+2178", "U+2179", "U+217A", "U+217B", "U+217C", "U+217D",
      "U+217E", "U+217F", "ↄ", "ⓐ", "ⓑ", "ⓒ", "ⓓ", "ⓔ", "ⓕ", "ⓖ", "ⓗ", "ⓘ", "ⓙ", "ⓚ", "ⓛ", "ⓜ",
      "ⓝ", "ⓞ", "ⓟ", "ⓠ", "ⓡ", "ⓢ", "ⓣ", "ⓤ", "ⓥ", "ⓦ", "ⓧ", "ⓨ", "ⓩ", "U+2C30", "U+2C31",
      "U+2C32", "U+2C33", "U+2C34", "U+2C35", "U+2C36", "U+2C37", "U+2C38", "U+2C39", "U+2C3A",
      "U+2C3B", "U+2C3C", "U+2C3D", "U+2C3E", "U+2C3F", "U+2C40", "U+2C41", "U+2C42", "U+2C43",
      "U+2C44", "U+2C45", "U+2C46", "U+2C47", "U+2C48", "U+2C49", "U+2C4A", "U+2C4B", "U+2C4C",
      "U+2C4D", "U+2C4E", "U+2C4F", "U+2C50", "U+2C51", "U+2C52", "U+2C53", "U+2C54", "U+2C55",
      "U+2C56", "U+2C57", "U+2C58", "U+2C59", "U+2C5A", "U+2C5B", "U+2C5C", "U+2C5D", "U+2C5E",
      "U+2C5F", "U+2C61", "U+026B", "U+1D7D", "U+027D", "U+2C68", "U+2C6A", "U+2C6C", "U+0251",
      "U+0271", "U+0250", "U+0252", "U+2C73", "U+2C76", "U+023F", "U+0240", "ⲁ", "ⲃ", "ⲅ", "ⲇ",
      "ⲉ", "ⲋ", "ⲍ", "ⲏ", "ⲑ", "ⲓ", "ⲕ", "ⲗ", "ⲙ", "ⲛ", "ⲝ", "ⲟ", "ⲡ", "ⲣ", "ⲥ", "ⲧ", "ⲩ", "ⲫ",
      "ⲭ", "ⲯ", "ⲱ", "ⲳ", "ⲵ", "ⲷ", "ⲹ", "ⲻ", "ⲽ", "ⲿ", "ⳁ", "ⳃ", "ⳅ", "ⳇ", "ⳉ", "ⳋ", "ⳍ", "ⳏ",
      "ⳑ", "ⳓ", "ⳕ", "ⳗ", "ⳙ", "ⳛ", "ⳝ", "ⳟ", "ⳡ", "ⳣ", "ⳬ", "ⳮ", "ⳳ", "U+A641", "U+A643",
      "U+A645", "U+A647", "U+A649", "U+A64B", "U+A64D", "U+A64F", "U+A651", "U+A653", "U+A655",
      "U+A657", "U+A659", "U+A65B", "U+A65D", "U+A65F", "U+A661", "U+A663", "U+A665", "U+A667",
      "U+A669", "U+A66B", "U+A66D", "ꚁ", "ꚃ", "ꚅ", "ꚇ", "ꚉ", "ꚋ", "ꚍ", "ꚏ", "ꚑ", "ꚓ", "ꚕ", "ꚗ",
      "ꚙ", "ꚛ", "U+A723", "U+A725", "U+A727", "U+A729", "U+A72B", "U+A72D", "U+A72F", "U+A733",
      "U+A735", "U+A737", "U+A739", "U+A73B", "U+A73D", "U+A73F", "U+A741", "U+A743", "U+A745",
      "U+A747", "U+A749", "U+A74B", "U+A74D", "U+A74F", "U+A751", "U+A753", "U+A755", "U+A757",
      "U+A759", "U+A75B", "U+A75D", "U+A75F", "U+A761", "U+A763", "U+A765", "U+A767", "U+A769",
      "U+A76B", "U+A76D", "U+A76F", "U+A77A", "U+A77C", "U+1D79", "U+A77F", "ꞁ", "ꞃ", "ꞅ", "ꞇ",
      "ꞌ", "U+0265", "ꞑ", "ꞓ", "ꞗ", "ꞙ", "ꞛ", "ꞝ", "ꞟ", "ꞡ", "ꞣ", "ꞥ", "ꞧ", "ꞩ", "U+0266",
      "U+025C", "U+0261", "U+026C", "U+026A", "ʞ", "ʇ", "ʝ", "U+AB53", "ꞵ", "ꞷ", "ꞹ", "ꞻ", "ꞽ",
      "ꞿ", "ꟁ", "ꟃ", "ꞔ", "ʂ", "ᶎ", "ꟈ", "ꟊ", "ꟑ", "ꟗ", "ꟙ", "ꟶ", "U+FF41", "U+FF42", "U+FF43",
      "U+FF44", "U+FF45", "U+FF46", "U+FF47", "U+FF48", "U+FF49", "U+FF4A", "U+FF4B", "U+FF4C",
      "U+FF4D", "U+FF4E", "U+FF4F", "U+FF50", "U+FF51", "U+FF52", "U+FF53", "U+FF54", "U+FF55",
      "U+FF56", "U+FF57", "U+FF58", "U+FF59", "U+FF5A", "U+10428", "U+10429", "U+1042A",
      "U+1042B", "U+1042C", "U+1042D", "U+1042E", "U+1042F", "U+10430", "U+10431", "U+10432",
      "U+10433", "U+10434", "U+10435", "U+10436", "U+10437", "U+10438", "U+10439", "U+1043A",
      "U+1043B", "U+1043C", "U+1043D", "U+1043E", "U+1043F", "U+10440", "U+10441", "U+10442",
      "U+10443", "U+10444", "U+10445", "U+10446", "U+10447", "U+10448", "U+10449", "U+1044A",
      "U+1044B", "U+1044C", "U+1044D", "U+1044E", "U+1044F", "U+104D8", "U+104D9", "U+104DA",
      "U+104DB", "U+104DC", "U+104DD", "U+104DE", "U+104DF", "U+104E0", "U+104E1", "U+104E2",
      "U+104E3", "U+104E4", "U+104E5", "U+104E6", "U+104E7", "U+104E8", "U+104E9", "U+104EA",
      "U+104EB", "U+104EC", "U+104ED", "U+104EE", "U+104EF", "U+104F0", "U+104F1", "U+104F2",
      "U+104F3", "U+104F4", "U+104F5", "U+104F6", "U+104F7", "U+104F8", "U+104F9", "U+104FA",
      "U+104FB", "U+10597", "U+10598", "U+10599", "U+1059A", "U+1059B", "U+1059C", "U+1059D",
      "U+1059E", "U+1059F", "U+105A0", "U+105A1", "U+105A3", "U+105A4", "U+105A5", "U+105A6",
      "U+105A7", "U+105A8", "U+105A9", "U+105AA", "U+105AB", "U+105AC", "U+105AD", "U+105AE",
      "U+105AF", "U+105B0", "U+105B1", "U+105B3", "U+105B4", "U+105B5", "U+105B6", "U+105B7",
      "U+105B8", "U+105B9", "U+105BB", "U+105BC", "U+10CC0", "U+10CC1", "U+10CC2", "U+10CC3",
      "U+10CC4", "U+10CC5", "U+10CC6", "U+10CC7", "U+10CC8", "U+10CC9", "U+10CCA", "U+10CCB",
      "U+10CCC", "U+10CCD", "U+10CCE", "U+10CCF", "U+10CD0", "U+10CD1", "U+10CD2", "U+10CD3",
      "U+10CD4", "U+10CD5", "U+10CD6", "U+10CD7", "U+10CD8", "U+10CD9", "U+10CDA", "U+10CDB",
      "U+10CDC", "U+10CDD", "U+10CDE", "U+10CDF", "U+10CE0", "U+10CE1", "U+10CE2", "U+10CE3",
      "U+10CE4", "U+10CE5", "U+10CE6", "U+10CE7", "U+10CE8", "U+10CE9", "U+10CEA", "U+10CEB",
      "U+10CEC", "U+10CED", "U+10CEE", "U+10CEF", "U+10CF0", "U+10CF1", "U+10CF2", "U+118C0",
      "U+118C1", "U+118C2", "U+118C3", "U+118C4", "U+118C5", "U+118C6", "U+118C7", "U+118C8",
      "U+118C9", "U+118CA", "U+118CB", "U+118CC", "U+118CD", "U+118CE", "U+118CF", "U+118D0",
      "U+118D1", "U+118D2", "U+118D3", "U+118D4", "U+118D5", "U+118D6", "U+118D7", "U+118D8",
      "U+118D9", "U+118DA", "U+118DB", "U+118DC", "U+118DD", "U+118DE", "U+118DF", "U+16E60",
      "U+16E61", "U+16E62", "U+16E63", "U+16E64", "U+16E65", "U+16E66", "U+16E67", "U+16E68",
      "U+16E69", "U+16E6A", "U+16E6B", "U+16E6C", "U+16E6D", "U+16E6E", "U+16E6F", "U+16E70",
      "U+16E71", "U+16E72", "U+16E73", "U+16E74", "U+16E75", "U+16E76", "U+16E77", "U+16E78",
      "U+16E79", "U+16E7A", "U+16E7B", "U+16E7C", "U+16E7D", "U+16E7E", "U+16E7F", "U+1E922",
      "U+1E923", "U+1E924", "U+1E925", "U+1E926", "U+1E927", "U+1E928", "U+1E929", "U+1E92A",
      "U+1E92B", "U+1E92C", "U+1E92D", "U+1E92E", "U+1E92F", "U+1E930", "U+1E931", "U+1E932",
      "U+1E933", "U+1E934", "U+1E935", "U+1E936", "U+1E937", "U+1E938", "U+1E939", "U+1E93A",
      "U+1E93B", "U+1E93C", "U+1E93D", "U+1E93E", "U+1E93F", "U+1E940", "U+1E941", "U+1E942",
      "U+1E943">>

UpperCharSet == {UpperChars[i] : i \in 1..Len(UpperChars)}

\* the characters of str.isspace(): str.strip() removes them, \s matches them
Whitespace ==
    {"\t", "\n", "", "\f", "\r", "", "", "", "", " ", "", " ", " ", "U+2000", "U+2001",
     "U+2002", "U+2003", "U+2004", "U+2005", "U+2006", "U+2007", "U+2008", "U+2009", "U+200A",
     "U+2028", "U+2029", "U+202F", "U+205F", "U+3000"}

\* the cased characters that are not case-ignorable
CasedChars ==
    {"A", "B", "C", "D", "E", "F", "G", "H", "I", "J", "K", "L", "M", "N", "O", "P", "Q", "R",
     "S", "T", "U", "V", "W", "X", "Y", "Z", "a", "b", "c", "d", "e", "f", "g", "h", "i", "j",
     "k", "l", "m", "n", "o", "p", "q", "r", "s", "t", "u", "v", "w", "x", "y", "z", "ª", "µ",
     "º", "À", "Á", "Â", "Ã", "Ä", "Å", "Æ", "Ç", "È", "É", "Ê", "Ë", "Ì", "Í", "Î", "Ï", "Ð",
     "Ñ", "Ò", "Ó", "Ô", "Õ", "Ö", "Ø", "Ù", "Ú", "Û", "Ü", "Ý", "Þ", "ß", "à", "á", "â", "ã",
     "ä", "å", "æ", "ç", "è", "é", "ê", "ë", "ì", "í", "î", "ï", "ð", "ñ", "ò", "ó", "ô", "õ",
     "ö", "ø", "ù", "ú", "û", "ü", "ý", "þ", "ÿ", "U+0100", "U+0101", "U+0102", "U+0103",
     "U+0104", "U+0105", "U+0106", "U+0107", "U+0108", "U+0109", "U+010A", "U+010B", "U+010C",
     "U+010D", "U+010E", "U+010F", "U+0110", "U+0111", "U+0112", "U+0113", "U+0114", "U+0115",
     "U+0116", "U+0117", "U+0118", "U+0119", "U+011A", "U+011B", "U+011C", "U+011D", "U+011E",
     "U+011F", "U+0120", "U+0121", "U+0122", "U+0123", "U+0124", "U+0125", "U+0126", "U+0127",
     "U+0128", "U+0129", "U+012A", "U+012B", "U+012C", "U+012D", "U+012E", "U+012F", "U+0130",
     "U+0131", "U+0132", "U+0133", "U+0134", "U+0135", "U+0136", "U+0137", "U+0138", "U+0139",
     "U+013A", "U+013B", "U+013C", "U+013D", "U+013E", "U+013F", "U+0140", "U+0141", "U+0142",
     "U+0143", "U+0144", "U+0145", "U+0146", "U+0147", "U+0148", "U+0149", "U+014A", "U+014B",
     "U+014C", "U+014D", "U+014E", "U+014F", "U+0150", "U+0151", "U+0152", "U+0153", "U+0154",
     "U+0155", "U+0156", "U+0157", "U+0158", "U+0159", "U+015A", "U+015B", "U+015C", "U+015D",
     "U+015E", "U+015F", "U+0160", "U+0161", "U+0162", "U+0163", "U+0164", "U+0165", "U+0166",
     "U+0167", "U+0168", "U+0169", "U+016A", "U+016B", "U+016C", "U+016D", "U+016E", "U+016F",
     "U+0170", "U+0171", "U+0172", "U+0173", "U+0174", "U+0175", "U+0176", "U+0177", "U+0178",
     "U+0179", "U+017A", "U+017B", "U+017C", "U+017D", "U+017E", "U+017F", "ƀ", "Ɓ", "Ƃ", "ƃ",
     "Ƅ", "ƅ", "Ɔ", "Ƈ", "ƈ", "Ɖ", "Ɗ", "Ƌ", "ƌ", "ƍ", "Ǝ", "Ə", "Ɛ", "Ƒ", "ƒ", "Ɠ", "Ɣ", "ƕ",
     "Ɩ", "Ɨ", "Ƙ", "ƙ", "ƚ", "ƛ", "Ɯ", "Ɲ", "ƞ", "Ɵ", "Ơ", "ơ", "Ƣ", "ƣ", "Ƥ", "ƥ", "Ʀ", "Ƨ",
     "ƨ", "Ʃ", "ƪ", "ƫ", "Ƭ", "ƭ", "Ʈ", "Ư", "ư", "Ʊ", "Ʋ", "Ƴ", "ƴ", "Ƶ", "ƶ", "Ʒ", "Ƹ", "ƹ",
     "ƺ", "Ƽ", "ƽ", "ƾ", "ƿ", "Ǆ", "ǅ", "ǆ", "Ǉ", "ǈ", "ǉ", "Ǌ", "ǋ", "ǌ", "Ǎ", "ǎ", "Ǐ", "ǐ",
     "Ǒ", "ǒ", "Ǔ", "ǔ", "Ǖ", "ǖ", "Ǘ", "ǘ", "Ǚ", "ǚ", "Ǜ", "ǜ", "ǝ", "Ǟ", "ǟ", "Ǡ", "ǡ", "Ǣ",
     "ǣ", "Ǥ", "ǥ", "Ǧ", "ǧ", "Ǩ", "ǩ", "Ǫ", "ǫ", "Ǭ", "ǭ", "Ǯ", "ǯ", "ǰ", "Ǳ", "ǲ", "ǳ", "Ǵ",
     "ǵ", "Ƕ", "Ƿ", "Ǹ", "ǹ", "Ǻ", "ǻ", "Ǽ", "ǽ", "Ǿ", "ǿ", "U+0200", "U+0201", "U+0202",
     "U+0203", "U+0204", "U+0205", "U+0206", "U+0207", "U+0208", "U+0209", "U+020A", "U+020B",
     "U+020C", "U+020D", "U+020E", "U+020F", "U+0210", "U+0211", "U+0212", "U+0213", "U+0214",
     "U+0215", "U+0216", "U+0217", "U+0218", "U+0219", "U+021A", "U+021B", "U+021C", "U+021D",
     "U+021E", "U+021F", "U+0220", "U+0221", "U+0222", "U+0223", "U+0224", "U+0225", "U+0226",
     "U+0227", "U+0228", "U+0229", "U+022A", "U+022B", "U+022C", "U+022D", "U+022E", "U+022F",
     "U+0230", "U+0231", "U+0232", "U+0233", "U+0234", "U+0235", "U+0236", "U+0237", "U+0238",
     "U+0239", "U+023A", "U+023B", "U+023C", "U+023D", "U+023E", "U+023F", "U+0240", "U+0241",
     "U+0242", "U+0243", "U+0244", "U+0245", "U+0246", "U+0247", "U+0248", "U+0249", "U+024A",
     "U+024B", "U+024C", "U+024D", "U+024E", "U+024F", "U+0250", "U+0251", "U+0252", "U+0253",
     "U+0254", "U+0255", "U+0256", "U+0257", "U+0258", "U+0259", "U+025A", "U+025B", "U+025C",
     "U+025D", "U+025E", "U+025F", "U+0260", "U+0261", "U+0262", "U+0263", "U+0264", "U+0265",
     "U+0266", "U+0267", "U+0268", "U+0269", "U+026A", "U+026B", "U+026C", "U+026D", "U+026E",
     "U+026F", "U+0270", "U+0271", "U+0272", "U+0273", "U+0274", "U+0275", "U+0276", "U+0277",
     "U+0278", "U+0279", "U+027A", "U+027B", "U+027C", "U+027D", "U+027E", "U+027F", "ʀ", "ʁ",
     "ʂ", "ʃ", "ʄ", "ʅ", "ʆ", "ʇ", "ʈ", "ʉ", "ʊ", "ʋ", "ʌ", "ʍ", "ʎ", "ʏ", "ʐ", "ʑ", "ʒ", "ʓ",
     "ʕ", "ʖ", "ʗ", "ʘ", "ʙ", "ʚ", "ʛ", "ʜ", "ʝ", "ʞ", "ʟ", "ʠ", "ʡ", "ʢ", "ʣ", "ʤ", "ʥ", "ʦ",
     "ʧ", "ʨ", "ʩ", "ʪ", "ʫ", "ʬ", "ʭ", "ʮ", "ʯ", "U+0370", "U+0371", "U+0372", "U+0373",
     "U+0376", "U+0377", "U+037B", "U+037C", "U+037D", "U+037F", "Ά", "Έ", "Ή", "Ί", "Ό", "Ύ",
     "Ώ", "ΐ", "Α", "Β", "Γ", "Δ", "Ε", "Ζ", "Η", "Θ", "Ι", "Κ", "Λ", "Μ", "Ν", "Ξ", "Ο", "Π",
     "Ρ", "Σ", "Τ", "Υ", "Φ", "Χ", "Ψ", "Ω", "Ϊ", "Ϋ", "ά", "έ", "ή", "ί", "ΰ", "α", "β", "γ",
     "δ", "ε", "ζ", "η", "θ", "ι", "κ", "λ", "μ", "ν", "ξ", "ο", "π", "ρ", "ς", "σ", "τ", "υ",
     "φ", "χ", "ψ", "ω", "ϊ", "ϋ", "ό", "ύ", "ώ", "Ϗ", "ϐ", "ϑ", "ϒ", "ϓ", "ϔ", "ϕ", "ϖ", "ϗ",
     "Ϙ", "ϙ", "Ϛ", "ϛ", "Ϝ", "ϝ", "Ϟ", "ϟ", "Ϡ", "ϡ", "Ϣ", "ϣ", "Ϥ", "ϥ", "Ϧ", "ϧ", "Ϩ", "ϩ",
     "Ϫ", "ϫ", "Ϭ", "ϭ", "Ϯ", "ϯ", "ϰ", "ϱ", "ϲ", "ϳ", "ϴ", "ϵ", "Ϸ", "ϸ", "Ϲ", "Ϻ", "ϻ", "ϼ",
     "Ͻ", "Ͼ", "Ͽ", "U+0400", "U+0401", "U+0402", "U+0403", "U+0404", "U+0405", "U+0406",
     "U+0407", "U+0408", "U+0409", "U+040A", "U+040B", "U+040C", "U+040D", "U+040E", "U+040F",
     "U+0410", "U+0411", "U+0412", "U+0413", "U+0414", "U+0415", "U+0416", "U+0417", "U+0418",
     "U+0419", "U+041A", "U+041B", "U+041C", "U+041D", "U+041E", "U+041F", "U+0420", "U+0421",
     "U+0422", "U+0423", "U+0424", "U+0425", "U+0426", "U+0427", "U+0428", "U+0429", "U+042A",
     "U+042B", "U+042C", "U+042D", "U+042E", "U+042F", "U+0430", "U+0431", "U+0432", "U+0433",
     "U+0434", "U+0435", "U+0436", "U+0437", "U+0438", "U+0439", "U+043A", "U+043B", "U+043C",
     "U+043D", "U+043E", "U+043F", "U+0440", "U+0441", "U+0442", "U+0443", "U+0444", "U+0445",
     "U+0446", "U+0447", "U+0448", "U+0449", "U+044A", "U+044B", "U+044C", "U+044D", "U+044E",
     "U+044F", "U+0450", "U+0451", "U+0452", "U+0453", "U+0454", "U+0455", "U+0456", "U+0457",
     "U+0458", "U+0459", "U+045A", "U+045B", "U+045C", "U+045D", "U+045E", "U+045F", "U+0460",
     "U+0461", "U+0462", "U+0463", "U+0464", "U+0465", "U+0466", "U+0467", "U+0468", "U+0469",
     "U+046A", "U+046B", "U+046C", "U+046D", "U+046E", "U+046F", "U+0470", "U+0471", "U+0472",
     "U+0473", "U+0474", "U+0475", "U+0476", "U+0477", "U+0478", "U+0479", "U+047A", "U+047B",
     "U+047C", "U+047D", "U+047E", "U+047F", "Ҁ", "ҁ", "Ҋ", "ҋ", "Ҍ", "ҍ", "Ҏ", "ҏ", "Ґ", "ґ",
     "Ғ", "ғ", "Ҕ", "ҕ", "Җ", "җ", "Ҙ", "ҙ", "Қ", "қ", "Ҝ", "ҝ", "Ҟ", "ҟ", "Ҡ", "ҡ", "Ң", "ң",
     "Ҥ", "ҥ", "Ҧ", "ҧ", "Ҩ", "ҩ", "Ҫ", "ҫ", "Ҭ", "ҭ", "Ү", "ү", "Ұ", "ұ", "Ҳ", "ҳ", "Ҵ", "ҵ",
     "Ҷ", "ҷ", "Ҹ", "ҹ", "Һ", "һ", "Ҽ", "ҽ", "Ҿ", "ҿ", "Ӏ", "Ӂ", "ӂ", "Ӄ", "ӄ", "Ӆ", "ӆ", "Ӈ",
     "ӈ", "Ӊ", "ӊ", "Ӌ", "ӌ", "Ӎ", "ӎ", "ӏ", "Ӑ", "ӑ", "Ӓ", "ӓ", "Ӕ", "ӕ", "Ӗ", "ӗ", "Ә", "ә",
     "Ӛ", "ӛ", "Ӝ", "ӝ", "Ӟ", "ӟ", "Ӡ", "ӡ", "Ӣ", "ӣ", "Ӥ", "ӥ", "Ӧ", "ӧ", "Ө", "ө", "Ӫ", "ӫ",
     "Ӭ", "ӭ", "Ӯ", "ӯ", "Ӱ", "ӱ", "Ӳ", "ӳ", "Ӵ", "ӵ", "Ӷ", "ӷ", "Ӹ", "ӹ", "Ӻ", "ӻ", "Ӽ", "ӽ",
     "Ӿ", "ӿ", "U+0500", "U+0501", "U+0502", "U+0503", "U+0504", "U+0505", "U+0506", "U+0507",
     "U+0508", "U+0509", "U+050A", "U+050B", "U+050C", "U+050D", "U+050E", "U+050F", "U+0510",
     "U+0511", "U+0512", "U+0513", "U+0514", "U+0515", "U+0516", "U+0517", "U+0518", "U+0519",
     "U+051A", "U+051B", "U+051C", "U+051D", "U+051E", "U+051F", "U+0520", "U+0521", "U+0522",
     "U+0523", "U+0524", "U+0525", "U+0526", "U+0527", "U+0528", "U+0529", "U+052A", "U+052B",
     "U+052C", "U+052D", "U+052E", "U+052F", "U+0531", "U+0532", "U+0533", "U+0534", "U+0535",
     "U+0536", "U+0537", "U+0538", "U+0539", "U+053A", "U+053B", "U+053C", "U+053D", "U+053E",
     "U+053F", "U+0540", "U+0541", "U+0542", "U+0543", "U+0544", "U+0545", "U+0546", "U+0547",
     "U+0548", "U+0549", "U+054A", "U+054B", "U+054C", "U+054D", "U+054E", "U+054F", "U+0550",
     "U+0551", "U+0552", "U+0553", "U+0554", "U+0555", "U+0556", "U+0560", "U+0561", "U+0562",
     "U+0563", "U+0564", "U+0565", "U+0566", "U+0567", "U+0568", "U+0569", "U+056A", "U+056B",
     "U+056C", "U+056D", "U+056E", "U+056F", "U+0570", "U+0571", "U+0572", "U+0573", "U+0574",
     "U+0575", "U+0576", "U+0577", "U+0578", "U+0579", "U+057A", "U+057B", "U+057C", "U+057D",
     "U+057E", "U+057F", "ր", "ց", "ւ", "փ", "ք", "օ", "ֆ", "և", "ֈ", "Ⴀ", "Ⴁ", "Ⴂ", "Ⴃ", "Ⴄ",
     "Ⴅ", "Ⴆ", "Ⴇ", "Ⴈ", "Ⴉ", "Ⴊ", "Ⴋ", "Ⴌ", "Ⴍ", "Ⴎ", "Ⴏ", "Ⴐ", "Ⴑ", "Ⴒ", "Ⴓ", "Ⴔ", "Ⴕ", "Ⴖ",
     "Ⴗ", "Ⴘ", "Ⴙ", "Ⴚ", "Ⴛ", "Ⴜ", "Ⴝ", "Ⴞ", "Ⴟ", "Ⴠ", "Ⴡ", "Ⴢ", "Ⴣ", "Ⴤ", "Ⴥ", "Ⴧ", "Ⴭ", "ა",
     "ბ", "გ", "დ", "ე", "ვ", "ზ", "თ", "ი", "კ", "ლ", "მ", "ნ", "ო", "პ", "ჟ", "რ", "ს", "ტ",
     "უ", "ფ", "ქ", "ღ", "ყ", "შ", "ჩ", "ც", "ძ", "წ", "ჭ", "ხ", "ჯ", "ჰ", "ჱ", "ჲ", "ჳ", "ჴ",
     "ჵ", "ჶ", "ჷ", "ჸ", "ჹ", "ჺ", "ჽ", "ჾ", "ჿ", "Ꭰ", "Ꭱ", "Ꭲ", "Ꭳ", "Ꭴ", "Ꭵ", "Ꭶ", "Ꭷ", "Ꭸ",
     "Ꭹ", "Ꭺ", "Ꭻ", "Ꭼ", "Ꭽ", "Ꭾ", "Ꭿ", "Ꮀ", "Ꮁ", "Ꮂ", "Ꮃ", "Ꮄ", "Ꮅ", "Ꮆ", "Ꮇ", "Ꮈ", "Ꮉ", "Ꮊ",
     "Ꮋ", "Ꮌ", "Ꮍ", "Ꮎ", "Ꮏ", "Ꮐ", "Ꮑ", "Ꮒ", "Ꮓ", "Ꮔ", "Ꮕ", "Ꮖ", "Ꮗ", "Ꮘ", "Ꮙ", "Ꮚ", "Ꮛ", "Ꮜ",
     "Ꮝ", "Ꮞ", "Ꮟ", "Ꮠ", "Ꮡ", "Ꮢ", "Ꮣ", "Ꮤ", "Ꮥ", "Ꮦ", "Ꮧ", "Ꮨ", "Ꮩ", "Ꮪ", "Ꮫ", "Ꮬ", "Ꮭ", "Ꮮ",
     "Ꮯ", "Ꮰ", "Ꮱ", "Ꮲ", "Ꮳ", "Ꮴ", "Ꮵ", "Ꮶ", "Ꮷ", "Ꮸ", "Ꮹ", "Ꮺ", "Ꮻ", "Ꮼ", "Ꮽ", "Ꮾ", "Ꮿ", "Ᏸ",
     "Ᏹ", "Ᏺ", "Ᏻ", "Ᏼ", "Ᏽ", "ᏸ", "ᏹ", "ᏺ", "ᏻ", "ᏼ", "ᏽ", "ᲀ", "ᲁ", "ᲂ", "ᲃ", "ᲄ", "ᲅ", "ᲆ",
     "ᲇ", "ᲈ", "Ა", "Ბ", "Გ", "Დ", "Ე", "Ვ", "Ზ", "Თ", "Ი", "Კ", "Ლ", "Მ", "Ნ", "Ო", "Პ", "Ჟ",
     "Რ", "Ს", "Ტ", "Უ", "Ფ", "Ქ", "Ღ", "Ყ", "Შ", "Ჩ", "Ც", "Ძ", "Წ", "Ჭ", "Ხ", "Ჯ", "Ჰ", "Ჱ",
     "Ჲ", "Ჳ", "Ჴ", "Ჵ", "Ჶ", "Ჷ", "Ჸ", "Ჹ", "Ჺ", "Ჽ", "Ჾ", "Ჿ", "U+1D00", "U+1D01", "U+1D02",
     "U+1D03", "U+1D04", "U+1D05", "U+1D06", "U+1D07", "U+1D08", "U+1D09", "U+1D0A", "U+1D0B",
     "U+1D0C", "U+1D0D", "U+1D0E", "U+1D0F", "U+1D10", "U+1D11", "U+1D12", "U+1D13", "U+1D14",
     "U+1D15", "U+1D16", "U+1D17", "U+1D18", "U+1D19", "U+1D1A", "U+1D1B", "U+1D1C", "U+1D1D",
     "U+1D1E", "U+1D1F", "U+1D20", "U+1D21", "U+1D22", "U+1D23", "U+1D24", "U+1D25", "U+1D26",
     "U+1D27", "U+1D28", "U+1D29", "U+1D2A", "U+1D2B", "U+1D6B", "U+1D6C", "U+1D6D", "U+1D6E",
     "U+1D6F", "U+1D70", "U+1D71", "U+1D72", "U+1D73", "U+1D74", "U+1D75", "U+1D76", "U+1D77",
     "U+1D79", "U+1D7A", "U+1D7B", "U+1D7C", "U+1D7D", "U+1D7E", "U+1D7F", "ᶀ", "ᶁ", "ᶂ", "ᶃ",
     "ᶄ", "ᶅ", "ᶆ", "ᶇ", "ᶈ", "ᶉ", "ᶊ", "ᶋ", "ᶌ", "ᶍ", "ᶎ", "ᶏ", "ᶐ", "ᶑ", "ᶒ", "ᶓ", "ᶔ", "ᶕ",
     "ᶖ", "ᶗ", "ᶘ", "ᶙ", "ᶚ", "U+1E00", "U+1E01", "U+1E02", "U+1E03", "U+1E04", "U+1E05",
     "U+1E06", "U+1E07", "U+1E08", "U+1E09", "U+1E0A", "U+1E0B", "U+1E0C", "U+1E0D", "U+1E0E",
     "U+1E0F", "U+1E10", "U+1E11", "U+1E12", "U+1E13", "U+1E14", "U+1E15", "U+1E16", "U+1E17",
     "U+1E18", "U+1E19", "U+1E1A", "U+1E1B", "U+1E1C", "U+1E1D", "U+1E1E", "U+1E1F", "U+1E20",
     "U+1E21", "U+1E22", "U+1E23", "U+1E24", "U+1E25", "U+1E26", "U+1E27", "U+1E28", "U+1E29",
     "U+1E2A", "U+1E2B", "U+1E2C", "U+1E2D", "U+1E2E", "U+1E2F", "U+1E30", "U+1E31", "U+1E32",
     "U+1E33", "U+1E34", "U+1E35", "U+1E36", "U+1E37", "U+1E38", "U+1E39", "U+1E3A", "U+1E3B",
     "U+1E3C", "U+1E3D", "U+1E3E", "U+1E3F", "U+1E40", "U+1E41", "U+1E42", "U+1E43", "U+1E44",
     "U+1E45", "U+1E46", "U+1E47", "U+1E48", "U+1E49", "U+1E4A", "U+1E4B", "U+1E4C", "U+1E4D",
     "U+1E4E", "U+1E4F", "U+1E50", "U+1E51", "U+1E52", "U+1E53", "U+1E54", "U+1E55", "U+1E56",
     "U+1E57", "U+1E58", "U+1E59", "U+1E5A", "U+1E5B", "U+1E5C", "U+1E5D", "U+1E5E", "U+1E5F",
     "U+1E60", "U+1E61", "U+1E62", "U+1E63", "U+1E64", "U+1E65", "U+1E66", "U+1E67", "U+1E68",
     "U+1E69", "U+1E6A", "U+1E6B", "U+1E6C", "U+1E6D", "U+1E6E", "U+1E6F", "U+1E70", "U+1E71",
     "U+1E72", "U+1E73", "U+1E74", "U+1E75", "U+1E76", "U+1E77", "U+1E78", "U+1E79", "U+1E7A",
     "U+1E7B", "U+1E7C", "U+1E7D", "U+1E7E", "U+1E7F", "Ẁ", "ẁ", "Ẃ", "ẃ", "Ẅ", "ẅ", "Ẇ", "ẇ",
     "Ẉ", "ẉ", "Ẋ", "ẋ", "Ẍ", "ẍ", "Ẏ", "ẏ", "Ẑ", "ẑ", "Ẓ", "ẓ", "Ẕ", "ẕ", "ẖ", "ẗ", "ẘ", "ẙ",
     "ẚ", "ẛ", "ẜ", "ẝ", "ẞ", "ẟ", "Ạ", "ạ", "Ả", "ả", "Ấ", "ấ", "Ầ", "ầ", "Ẩ", "ẩ", "Ẫ", "ẫ",
     "Ậ", "ậ", "Ắ", "ắ", "Ằ", "ằ", "Ẳ", "ẳ", "Ẵ", "ẵ", "Ặ", "ặ", "Ẹ", "ẹ", "Ẻ", "ẻ", "Ẽ", "ẽ",
     "Ế", "ế", "Ề", "ề", "Ể", "ể", "Ễ", "ễ", "Ệ", "ệ", "Ỉ", "ỉ", "Ị", "ị", "Ọ", "ọ", "Ỏ", "ỏ",
     "Ố", "ố", "Ồ", "ồ", "Ổ", "ổ", "Ỗ", "ỗ", "Ộ", "ộ", "Ớ", "ớ", "Ờ", "ờ", "Ở", "ở", "Ỡ", "ỡ",
     "Ợ", "ợ", "Ụ", "ụ", "Ủ", "ủ", "Ứ", "ứ", "Ừ", "ừ", "Ử", "ử", "Ữ", "ữ", "Ự", "ự", "Ỳ", "ỳ",
     "Ỵ", "ỵ", "Ỷ", "ỷ", "Ỹ", "ỹ", "Ỻ", "ỻ", "Ỽ", "ỽ", "Ỿ", "ỿ", "U+1F00", "U+1F01", "U+1F02",
     "U+1F03", "U+1F04", "U+1F05", "U+1F06", "U+1F07", "U+1F08", "U+1F09", "U+1F0A", "U+1F0B",
     "U+1F0C", "U+1F0D", "U+1F0E", "U+1F0F", "U+1F10", "U+1F11", "U+1F12", "U+1F13", "U+1F14",
     "U+1F15", "U+1F18", "U+1F19", "U+1F1A", "U+1F1B", "U+1F1C", "U+1F1D", "U+1F20", "U+1F21",
     "U+1F22", "U+1F23", "U+1F24", "U+1F25", "U+1F26", "U+1F27", "U+1F28", "U+1F29", "U+1F2A",
     "U+1F2B", "U+1F2C", "U+1F2D", "U+1F2E", "U+1F2F", "U+1F30", "U+1F31", "U+1F32", "U+1F33",
     "U+1F34", "U+1F35", "U+1F36", "U+1F37", "U+1F38", "U+1F39", "U+1F3A", "U+1F3B", "U+1F3C",
     "U+1F3D", "U+1F3E", "U+1F3F", "U+1F40", "U+1F41", "U+1F42", "U+1F43", "U+1F44", "U+1F45",
     "U+1F48", "U+1F49", "U+1F4A", "U+1F4B", "U+1F4C", "U+1F4D", "U+1F50", "U+1F51", "U+1F52",
     "U+1F53", "U+1F54", "U+1F55", "U+1F56", "U+1F57", "U+1F59", "U+1F5B", "U+1F5D", "U+1F5F",
     "U+1F60", "U+1F61", "U+1F62", "U+1F63", "U+1F64", "U+1F65", "U+1F66", "U+1F67", "U+1F68",
     "U+1F69", "U+1F6A", "U+1F6B", "U+1F6C", "U+1F6D", "U+1F6E", "U+1F6F", "U+1F70", "U+1F71",
     "U+1F72", "U+1F73", "U+1F74", "U+1F75", "U+1F76", "U+1F77", "U+1F78", "U+1F79", "U+1F7A",
     "U+1F7B", "U+1F7C", "U+1F7D", "ᾀ", "ᾁ", "ᾂ", "ᾃ", "ᾄ", "ᾅ", "ᾆ", "ᾇ", "ᾈ", "ᾉ", "ᾊ", "ᾋ",
     "ᾌ", "ᾍ", "ᾎ", "ᾏ", "ᾐ", "ᾑ", "ᾒ", "ᾓ", "ᾔ", "ᾕ", "ᾖ", "ᾗ", "ᾘ", "ᾙ", "ᾚ", "ᾛ", "ᾜ", "ᾝ",
     "ᾞ", "ᾟ", "ᾠ", "ᾡ", "ᾢ", "ᾣ", "ᾤ", "ᾥ", "ᾦ", "ᾧ", "ᾨ", "ᾩ", "ᾪ", "ᾫ", "ᾬ", "ᾭ", "ᾮ", "ᾯ",
     "ᾰ", "ᾱ", "ᾲ", "ᾳ", "ᾴ", "ᾶ", "ᾷ", "Ᾰ", "Ᾱ", "Ὰ", "Ά", "ᾼ", "ι", "ῂ", "ῃ", "ῄ", "ῆ", "ῇ",
     "Ὲ", "Έ", "Ὴ", "Ή", "ῌ", "ῐ", "ῑ", "ῒ", "ΐ", "ῖ", "ῗ", "Ῐ", "Ῑ", "Ὶ", "Ί", "ῠ", "ῡ", "ῢ",
     "ΰ", "ῤ", "ῥ", "ῦ", "ῧ", "Ῠ", "Ῡ", "Ὺ", "Ύ", "Ῥ", "ῲ", "ῳ", "ῴ", "ῶ", "ῷ", "Ὸ", "Ό", "Ὼ",
     "Ώ", "ῼ", "U+2102", "U+2107", "U+210A", "U+210B", "U+210C", "U+210D", "U+210E", "U+210F",
     "U+2110", "U+2111", "U+2112", "U+2113", "U+2115", "U+2119", "U+211A", "U+211B", "U+211C",
     "U+211D", "U+2124", "U+2126", "U+2128", "U+212A", "U+212B", "U+212C", "U+212D", "U+212F",
     "U+2130", "U+2131", "U+2132", "U+2133", "U+2134", "U+2139", "U+213C", "U+213D", "U+213E",
     "U+213F", "U+2145", "U+2146", "U+2147", "U+2148", "U+2149", "U+214E", "U+2160", "U+2161",
     "U+2162", "U+2163", "U+2164", "U+2165", "U+2166", "U+2167", "U+2168", "U+2169", "U+216A",
     "U+216B", "U+216C", "U+216D", "U+216E", "U+216F", "U+2170", "U+2171", "U+2172", "U+2173",
     "U+2174", "U+2175", "U+2176", "U+2177", "U+2178", "U+2179", "U+217A", "U+217B", "U+217C",
     "U+217D", "U+217E", "U+217F", "Ↄ", "ↄ", "Ⓐ", "Ⓑ", "Ⓒ", "Ⓓ", "Ⓔ", "Ⓕ", "Ⓖ", "Ⓗ", "Ⓘ", "Ⓙ",
     "Ⓚ", "Ⓛ", "Ⓜ", "Ⓝ", "Ⓞ", "Ⓟ", "Ⓠ", "Ⓡ", "Ⓢ", "Ⓣ", "Ⓤ", "Ⓥ", "Ⓦ", "Ⓧ", "Ⓨ", "Ⓩ", "ⓐ", "ⓑ",
     "ⓒ", "ⓓ", "ⓔ", "ⓕ", "ⓖ", "ⓗ", "ⓘ", "ⓙ", "ⓚ", "ⓛ", "ⓜ", "ⓝ", "ⓞ", "ⓟ", "ⓠ", "ⓡ", "ⓢ", "ⓣ",
     "ⓤ", "ⓥ", "ⓦ", "ⓧ", "ⓨ", "ⓩ", "U+2C00", "U+2C01", "U+2C02", "U+2C03", "U+2C04", "U+2C05",
     "U+2C06", "U+2C07", "U+2C08", "U+2C09", "U+2C0A", "U+2C0B", "U+2C0C", "U+2C0D", "U+2C0E",
     "U+2C0F", "U+2C10", "U+2C11", "U+2C12", "U+2C13", "U+2C14", "U+2C15", "U+2C16", "U+2C17",
     "U+2C18", "U+2C19", "U+2C1A", "U+2C1B", "U+2C1C", "U+2C1D", "U+2C1E", "U+2C1F", "U+2C20",
     "U+2C21", "U+2C22", "U+2C23", "U+2C24", "U+2C25", "U+2C26", "U+2C27", "U+2C28", "U+2C29",
     "U+2C2A", "U+2C2B", "U+2C2C", "U+2C2D", "U+2C2E", "U+2C2F", "U+2C30", "U+2C31", "U+2C32",
     "U+2C33", "U+2C34", "U+2C35", "U+2C36", "U+2C37", "U+2C38", "U+2C39", "U+2C3A", "U+2C3B",
     "U+2C3C", "U+2C3D", "U+2C3E", "U+2C3F", "U+2C40", "U+2C41", "U+2C42", "U+2C43", "U+2C44",
     "U+2C45", "U+2C46", "U+2C47", "U+2C48", "U+2C49", "U+2C4A", "U+2C4B", "U+2C4C", "U+2C4D",
     "U+2C4E", "U+2C4F", "U+2C50", "U+2C51", "U+2C52", "U+2C53", "U+2C54", "U+2C55", "U+2C56",
     "U+2C57", "U+2C58", "U+2C59", "U+2C5A", "U+2C5B", "U+2C5C", "U+2C5D", "U+2C5E", "U+2C5F",
     "U+2C60", "U+2C61", "U+2C62", "U+2C63", "U+2C64", "U+2C65", "U+2C66", "U+2C67", "U+2C68",
     "U+2C69", "U+2C6A", "U+2C6B", "U+2C6C", "U+2C6D", "U+2C6E", "U+2C6F", "U+2C70", "U+2C71",
     "U+2C72", "U+2C73", "U+2C74", "U+2C75", "U+2C76", "U+2C77", "U+2C78", "U+2C79", "U+2C7A",
     "U+2C7B", "U+2C7E", "U+2C7F", "Ⲁ", "ⲁ", "Ⲃ", "ⲃ", "Ⲅ", "ⲅ", "Ⲇ", "ⲇ", "Ⲉ", "ⲉ", "Ⲋ", "ⲋ",
     "Ⲍ", "ⲍ", "Ⲏ", "ⲏ", "Ⲑ", "ⲑ", "Ⲓ", "ⲓ", "Ⲕ", "ⲕ", "Ⲗ", "ⲗ", "Ⲙ", "ⲙ", "Ⲛ", "ⲛ", "Ⲝ", "ⲝ",
     "Ⲟ", "ⲟ", "Ⲡ", "ⲡ", "Ⲣ", "ⲣ", "Ⲥ", "ⲥ", "Ⲧ", "ⲧ", "Ⲩ", "ⲩ", "Ⲫ", "ⲫ", "Ⲭ", "ⲭ", "Ⲯ", "ⲯ",
     "Ⲱ", "ⲱ", "Ⲳ", "ⲳ", "Ⲵ", "ⲵ", "Ⲷ", "ⲷ", "Ⲹ", "ⲹ", "Ⲻ", "ⲻ", "Ⲽ", "ⲽ", "Ⲿ", "ⲿ", "Ⳁ", "ⳁ",
     "Ⳃ", "ⳃ", "Ⳅ", "ⳅ", "Ⳇ", "ⳇ", "Ⳉ", "ⳉ", "Ⳋ", "ⳋ", "Ⳍ", "ⳍ", "Ⳏ", "ⳏ", "Ⳑ", "ⳑ", "Ⳓ", "ⳓ",
     "Ⳕ", "ⳕ", "Ⳗ", "ⳗ", "Ⳙ", "ⳙ", "Ⳛ", "ⳛ", "Ⳝ", "ⳝ", "Ⳟ", "ⳟ", "Ⳡ", "ⳡ", "Ⳣ", "ⳣ", "ⳤ", "Ⳬ",
     "ⳬ", "Ⳮ", "ⳮ", "Ⳳ", "ⳳ", "U+2D00", "U+2D01", "U+2D02", "U+2D03", "U+2D04", "U+2D05",
     "U+2D06", "U+2D07", "U+2D08", "U+2D09", "U+2D0A", "U+2D0B", "U+2D0C", "U+2D0D", "U+2D0E",
     "U+2D0F", "U+2D10", "U+2D11", "U+2D12", "U+2D13", "U+2D14", "U+2D15", "U+2D16", "U+2D17",
     "U+2D18", "U+2D19", "U+2D1A", "U+2D1B", "U+2D1C", "U+2D1D", "U+2D1E", "U+2D1F", "U+2D20",
     "U+2D21", "U+2D22", "U+2D23", "U+2D24", "U+2D25", "U+2D27", "U+2D2D", "U+A640", "U+A641",
     "U+A642", "U+A643", "U+A644", "U+A645", "U+A646", "U+A647", "U+A648", "U+A649", "U+A64A",
     "U+A64B", "U+A64C", "U+A64D", "U+A64E", "U+A64F", "U+A650", "U+A651", "U+A652", "U+A653",
     "U+A654", "U+A655", "U+A656", "U+A657", "U+A658", "U+A659", "U+A65A", "U+A65B", "U+A65C",
     "U+A65D", "U+A65E", "U+A65F", "U+A660", "U+A661", "U+A662", "U+A663", "U+A664", "U+A665",
     "U+A666", "U+A667", "U+A668", "U+A669", "U+A66A", "U+A66B", "U+A66C", "U+A66D", "Ꚁ", "ꚁ",
     "Ꚃ", "ꚃ", "Ꚅ", "ꚅ", "Ꚇ", "ꚇ", "Ꚉ", "ꚉ", "Ꚋ", "ꚋ", "Ꚍ", "ꚍ", "Ꚏ", "ꚏ", "Ꚑ", "ꚑ", "Ꚓ", "ꚓ",
     "Ꚕ", "ꚕ", "Ꚗ", "ꚗ", "Ꚙ", "ꚙ", "Ꚛ", "ꚛ", "U+A722", "U+A723", "U+A724", "U+A725", "U+A726",
     "U+A727", "U+A728", "U+A729", "U+A72A", "U+A72B", "U+A72C", "U+A72D", "U+A72E", "U+A72F",
     "U+A730", "U+A731", "U+A732", "U+A733", "U+A734", "U+A735", "U+A736", "U+A737", "U+A738",
     "U+A739", "U+A73A", "U+A73B", "U+A73C", "U+A73D", "U+A73E", "U+A73F", "U+A740", "U+A741",
     "U+A742", "U+A743", "U+A744", "U+A745", "U+A746", "U+A747", "U+A748", "U+A749", "U+A74A",
     "U+A74B", "U+A74C", "U+A74D", "U+A74E", "U+A74F", "U+A750", "U+A751", "U+A752", "U+A753",
     "U+A754", "U+A755", "U+A756", "U+A757", "U+A758", "U+A759", "U+A75A", "U+A75B", "U+A75C",
     "U+A75D", "U+A75E", "U+A75F", "U+A760", "U+A761", "U+A762", "U+A763", "U+A764", "U+A765",
     "U+A766", "U+A767", "U+A768", "U+A769", "U+A76A", "U+A76B", "U+A76C", "U+A76D", "U+A76E",
     "U+A76F", "U+A771", "U+A772", "U+A773", "U+A774", "U+A775", "U+A776", "U+A777", "U+A778",
     "U+A779", "U+A77A", "U+A77B", "U+A77C", "U+A77D", "U+A77E", "U+A77F", "Ꞁ", "ꞁ", "Ꞃ", "ꞃ",
     "Ꞅ", "ꞅ", "Ꞇ", "ꞇ", "Ꞌ", "ꞌ", "Ɥ", "ꞎ", "Ꞑ", "ꞑ", "Ꞓ", "ꞓ", "ꞔ", "ꞕ", "Ꞗ", "ꞗ", "Ꞙ", "ꞙ",
     "Ꞛ", "ꞛ", "Ꞝ", "ꞝ", "Ꞟ", "ꞟ", "Ꞡ", "ꞡ", "Ꞣ", "ꞣ", "Ꞥ", "ꞥ", "Ꞧ", "ꞧ", "Ꞩ", "ꞩ", "Ɦ", "Ɜ",
     "Ɡ", "Ɬ", "Ɪ", "ꞯ", "Ʞ", "Ʇ", "Ʝ", "Ꭓ", "Ꞵ", "ꞵ", "Ꞷ", "ꞷ", "Ꞹ", "ꞹ", "Ꞻ", "ꞻ", "Ꞽ", "ꞽ",
     "Ꞿ", "ꞿ", "Ꟁ", "ꟁ", "Ꟃ", "ꟃ", "Ꞔ", "Ʂ", "Ᶎ", "Ꟈ", "ꟈ", "Ꟊ", "ꟊ", "Ꟑ", "ꟑ", "ꟓ", "ꟕ", "Ꟗ",
     "ꟗ", "Ꟙ", "ꟙ", "Ꟶ", "ꟶ", "ꟺ", "U+AB30", "U+AB31", "U+AB32", "U+AB33", "U+AB34", "U+AB35",
     "U+AB36", "U+AB37", "U+AB38", "U+AB39", "U+AB3A", "U+AB3B", "U+AB3C", "U+AB3D", "U+AB3E",
     "U+AB3F", "U+AB40", "U+AB41", "U+AB42", "U+AB43", "U+AB44", "U+AB45", "U+AB46", "U+AB47",
     "U+AB48", "U+AB49", "U+AB4A", "U+AB4B", "U+AB4C", "U+AB4D", "U+AB4E", "U+AB4F", "U+AB50",
     "U+AB51", "U+AB52", "U+AB53", "U+AB54", "U+AB55", "U+AB56", "U+AB57", "U+AB58", "U+AB59",
     "U+AB5A", "U+AB60", "U+AB61", "U+AB62", "U+AB63", "U+AB64", "U+AB65", "U+AB66", "U+AB67",
     "U+AB68", "U+AB70", "U+AB71", "U+AB72", "U+AB73", "U+AB74", "U+AB75", "U+AB76", "U+AB77",
     "U+AB78", "U+AB79", "U+AB7A", "U+AB7B", "U+AB7C", "U+AB7D", "U+AB7E", "U+AB7F", "ꮀ", "ꮁ",
     "ꮂ", "ꮃ", "ꮄ", "ꮅ", "ꮆ", "ꮇ", "ꮈ", "ꮉ", "ꮊ", "ꮋ", "ꮌ", "ꮍ", "ꮎ", "ꮏ", "ꮐ", "ꮑ", "ꮒ", "ꮓ",
     "ꮔ", "ꮕ", "ꮖ", "ꮗ", "ꮘ", "ꮙ", "ꮚ", "ꮛ", "ꮜ", "ꮝ", "ꮞ", "ꮟ", "ꮠ", "ꮡ", "ꮢ", "ꮣ", "ꮤ", "ꮥ",
     "ꮦ", "ꮧ", "ꮨ", "ꮩ", "ꮪ", "ꮫ", "ꮬ", "ꮭ", "ꮮ", "ꮯ", "ꮰ", "ꮱ", "ꮲ", "ꮳ", "ꮴ", "ꮵ", "ꮶ", "ꮷ",
     "ꮸ", "ꮹ", "ꮺ", "ꮻ", "ꮼ", "ꮽ", "ꮾ", "ꮿ", "U+FB00", "U+FB01", "U+FB02", "U+FB03", "U+FB04",
     "U+FB05", "U+FB06", "U+FB13", "U+FB14", "U+FB15", "U+FB16", "U+FB17", "U+FF21", "U+FF22",
     "U+FF23", "U+FF24", "U+FF25", "U+FF26", "U+FF27", "U+FF28", "U+FF29", "U+FF2A", "U+FF2B",
     "U+FF2C", "U+FF2D", "U+FF2E", "U+FF2F", "U+FF30", "U+FF31", "U+FF32", "U+FF33", "U+FF34",
     "U+FF35", "U+FF36", "U+FF37", "U+FF38", "U+FF39", "U+FF3A", "U+FF41", "U+FF42", "U+FF43",
     "U+FF44", "U+FF45", "U+FF46", "U+FF47", "U+FF48", "U+FF49", "U+FF4A", "U+FF4B", "U+FF4C",
     "U+FF4D", "U+FF4E", "U+FF4F", "U+FF50", "U+FF51", "U+FF52", "U+FF53", "U+FF54", "U+FF55",
     "U+FF56", "U+FF57", "U+FF58", "U+FF59", "U+FF5A", "U+10400", "U+10401", "U+10402",
     "U+10403", "U+10404", "U+10405", "U+10406", "U+10407", "U+10408", "U+10409", "U+1040A",
     "U+1040B", "U+1040C", "U+1040D", "U+1040E", "U+1040F", "U+10410", "U+10411", "U+10412",
     "U+10413", "U+10414", "U+10415", "U+10416", "U+10417", "U+10418", "U+10419", "U+1041A",
     "U+1041B", "U+1041C", "U+1041D", "U+1041E", "U+1041F", "U+10420", "U+10421", "U+10422",
     "U+10423", "U+10424", "U+10425", "U+10426", "U+10427", "U+10428", "U+10429", "U+1042A",
     "U+1042B", "U+1042C", "U+1042D", "U+1042E", "U+1042F", "U+10430", "U+10431", "U+10432",
     "U+10433", "U+10434", "U+10435", "U+10436", "U+10437", "U+10438", "U+10439", "U+1043A",
     "U+1043B", "U+1043C", "U+1043D", "U+1043E", "U+1043F", "U+10440", "U+10441", "U+10442",
     "U+10443", "U+10444", "U+10445", "U+10446", "U+10447", "U+10448", "U+10449", "U+1044A",
     "U+1044B", "U+1044C", "U+1044D", "U+1044E", "U+1044F", "U+104B0", "U+104B1", "U+104B2",
     "U+104B3", "U+104B4", "U+104B5", "U+104B6", "U+104B7", "U+104B8", "U+104B9", "U+104BA",
     "U+104BB", "U+104BC", "U+104BD", "U+104BE", "U+104BF", "U+104C0", "U+104C1", "U+104C2",
     "U+104C3", "U+104C4", "U+104C5", "U+104C6", "U+104C7", "U+104C8", "U+104C9", "U+104CA",
     "U+104CB", "U+104CC", "U+104CD", "U+104CE", "U+104CF", "U+104D0", "U+104D1", "U+104D2",
     "U+104D3", "U+104D8", "U+104D9", "U+104DA", "U+104DB", "U+104DC", "U+104DD", "U+104DE",
     "U+104DF", "U+104E0", "U+104E1", "U+104E2", "U+104E3", "U+104E4", "U+104E5", "U+104E6",
     "U+104E7", "U+104E8", "U+104E9", "U+104EA", "U+104EB", "U+104EC", "U+104ED", "U+104EE",
     "U+104EF", "U+104F0", "U+104F1", "U+104F2", "U+104F3", "U+104F4", "U+104F5", "U+104F6",
     "U+104F7", "U+104F8", "U+104F9", "U+104FA", "U+104FB", "U+10570", "U+10571", "U+10572",
     "U+10573", "U+10574", "U+10575", "U+10576", "U+10577", "U+10578", "U+10579", "U+1057A",
     "U+1057C", "U+1057D", "U+1057E", "U+1057F", "U+10580", "U+10581", "U+10582", "U+10583",
     "U+10584", "U+10585", "U+10586", "U+10587", "U+10588", "U+10589", "U+1058A", "U+1058C",
     "U+1058D", "U+1058E", "U+1058F", "U+10590", "U+10591", "U+10592", "U+10594", "U+10595",
     "U+10597", "U+10598", "U+10599", "U+1059A", "U+1059B", "U+1059C", "U+1059D", "U+1059E",
     "U+1059F", "U+105A0", "U+105A1", "U+105A3", "U+105A4", "U+105A5", "U+105A6", "U+105A7",
     "U+105A8", "U+105A9", "U+105AA", "U+105AB", "U+105AC", "U+105AD", "U+105AE", "U+105AF",
     "U+105B0", "U+105B1", "U+105B3", "U+105B4", "U+105B5", "U+105B6", "U+105B7", "U+105B8",
     "U+105B9", "U+105BB", "U+105BC", "U+10C80", "U+10C81", "U+10C82", "U+10C83", "U+10C84",
     "U+10C85", "U+10C86", "U+10C87", "U+10C88", "U+10C89", "U+10C8A", "U+10C8B", "U+10C8C",
     "U+10C8D", "U+10C8E", "U+10C8F", "U+10C90", "U+10C91", "U+10C92", "U+10C93", "U+10C94",
     "U+10C95", "U+10C96", "U+10C97", "U+10C98", "U+10C99", "U+10C9A", "U+10C9B", "U+10C9C",
     "U+10C9D", "U+10C9E", "U+10C9F", "U+10CA0", "U+10CA1", "U+10CA2", "U+10CA3", "U+10CA4",
     "U+10CA5", "U+10CA6", "U+10CA7", "U+10CA8", "U+10CA9", "U+10CAA", "U+10CAB", "U+10CAC",
     "U+10CAD", "U+10CAE", "U+10CAF", "U+10CB0", "U+10CB1", "U+10CB2", "U+10CC0", "U+10CC1",
     "U+10CC2", "U+10CC3", "U+10CC4", "U+10CC5", "U+10CC6", "U+10CC7", "U+10CC8", "U+10CC9",
     "U+10CCA", "U+10CCB", "U+10CCC", "U+10CCD", "U+10CCE", "U+10CCF", "U+10CD0", "U+10CD1",
     "U+10CD2", "U+10CD3", "U+10CD4", "U+10CD5", "U+10CD6", "U+10CD7", "U+10CD8", "U+10CD9",
     "U+10CDA", "U+10CDB", "U+10CDC", "U+10CDD", "U+10CDE", "U+10CDF", "U+10CE0", "U+10CE1",
     "U+10CE2", "U+10CE3", "U+10CE4", "U+10CE5", "U+10CE6", "U+10CE7", "U+10CE8", "U+10CE9",
     "U+10CEA", "U+10CEB", "U+10CEC", "U+10CED", "U+10CEE", "U+10CEF", "U+10CF0", "U+10CF1",
     "U+10CF2", "U+118A0", "U+118A1", "U+118A2", "U+118A3", "U+118A4", "U+118A5", "U+118A6",
     "U+118A7", "U+118A8", "U+118A9", "U+118AA", "U+118AB", "U+118AC", "U+118AD", "U+118AE",
     "U+118AF", "U+118B0", "U+118B1", "U+118B2", "U+118B3", "U+118B4", "U+118B5", "U+118B6",
     "U+118B7", "U+118B8", "U+118B9", "U+118BA", "U+118BB", "U+118BC", "U+118BD", "U+118BE",
     "U+118BF", "U+118C0", "U+118C1", "U+118C2", "U+118C3", "U+118C4", "U+118C5", "U+118C6",
     "U+118C7", "U+118C8", "U+118C9", "U+118CA", "U+118CB", "U+118CC", "U+118CD", "U+118CE",
     "U+118CF", "U+118D0", "U+118D1", "U+118D2", "U+118D3", "U+118D4", "U+118D5", "U+118D6",
     "U+118D7", "U+118D8", "U+118D9", "U+118DA", "U+118DB", "U+118DC", "U+118DD", "U+118DE",
     "U+118DF", "U+16E40", "U+16E41", "U+16E42", "U+16E43", "U+16E44", "U+16E45", "U+16E46",
     "U+16E47", "U+16E48", "U+16E49", "U+16E4A", "U+16E4B", "U+16E4C", "U+16E4D", "U+16E4E",
     "U+16E4F", "U+16E50", "U+16E51", "U+16E52", "U+16E53", "U+16E54", "U+16E55", "U+16E56",
     "U+16E57", "U+16E58", "U+16E59", "U+16E5A", "U+16E5B", "U+16E5C", "U+16E5D", "U+16E5E",
     "U+16E5F", "U+16E60", "U+16E61", "U+16E62", "U+16E63", "U+16E64", "U+16E65", "U+16E66",
     "U+16E67", "U+16E68", "U+16E69", "U+16E6A", "U+16E6B", "U+16E6C", "U+16E6D", "U+16E6E",
     "U+16E6F", "U+16E70", "U+16E71", "U+16E72", "U+16E73", "U+16E74", "U+16E75", "U+16E76",
     "U+16E77", "U+16E78", "U+16E79", "U+16E7A", "U+16E7B", "U+16E7C", "U+16E7D", "U+16E7E",
     "U+16E7F", "U+1D400", "U+1D401", "U+1D402", "U+1D403", "U+1D404", "U+1D405", "U+1D406",
     "U+1D407", "U+1D408", "U+1D409", "U+1D40A", "U+1D40B", "U+1D40C", "U+1D40D", "U+1D40E",
     "U+1D40F", "U+1D410", "U+1D411", "U+1D412", "U+1D413", "U+1D414", "U+1D415", "U+1D416",
     "U+1D417", "U+1D418", "U+1D419", "U+1D41A", "U+1D41B", "U+1D41C", "U+1D41D", "U+1D41E",
     "U+1D41F", "U+1D420", "U+1D421", "U+1D422", "U+1D423", "U+1D424", "U+1D425", "U+1D426",
     "U+1D427", "U+1D428", "U+1D429", "U+1D42A", "U+1D42B", "U+1D42C", "U+1D42D", "U+1D42E",
     "U+1D42F", "U+1D430", "U+1D431", "U+1D432", "U+1D433", "U+1D434", "U+1D435", "U+1D436",
     "U+1D437", "U+1D438", "U+1D439", "U+1D43A", "U+1D43B", "U+1D43C", "U+1D43D", "U+1D43E",
     "U+1D43F", "U+1D440", "U+1D441", "U+1D442", "U+1D443", "U+1D444", "U+1D445", "U+1D446",
     "U+1D447", "U+1D448", "U+1D449", "U+1D44A", "U+1D44B", "U+1D44C", "U+1D44D", "U+1D44E",
     "U+1D44F", "U+1D450", "U+1D451", "U+1D452", "U+1D453", "U+1D454", "U+1D456", "U+1D457",
     "U+1D458", "U+1D459", "U+1D45A", "U+1D45B", "U+1D45C", "U+1D45D", "U+1D45E", "U+1D45F",
     "U+1D460", "U+1D461", "U+1D462", "U+1D463", "U+1D464", "U+1D465", "U+1D466", "U+1D467",
     "U+1D468", "U+1D469", "U+1D46A", "U+1D46B", "U+1D46C", "U+1D46D", "U+1D46E", "U+1D46F",
     "U+1D470", "U+1D471", "U+1D472", "U+1D473", "U+1D474", "U+1D475", "U+1D476", "U+1D477",
     "U+1D478", "U+1D479", "U+1D47A", "U+1D47B", "U+1D47C", "U+1D47D", "U+1D47E", "U+1D47F",
     "U+1D480", "U+1D481", "U+1D482", "U+1D483", "U+1D484", "U+1D485", "U+1D486", "U+1D487",
     "U+1D488", "U+1D489", "U+1D48A", "U+1D48B", "U+1D48C", "U+1D48D", "U+1D48E", "U+1D48F",
     "U+1D490", "U+1D491", "U+1D492", "U+1D493", "U+1D494", "U+1D495", "U+1D496", "U+1D497",
     "U+1D498", "U+1D499", "U+1D49A", "U+1D49B", "U+1D49C", "U+1D49E", "U+1D49F", "U+1D4A2",
     "U+1D4A5", "U+1D4A6", "U+1D4A9", "U+1D4AA", "U+1D4AB", "U+1D4AC", "U+1D4AE", "U+1D4AF",
     "U+1D4B0", "U+1D4B1", "U+1D4B2", "U+1D4B3", "U+1D4B4", "U+1D4B5", "U+1D4B6", "U+1D4B7",
     "U+1D4B8", "U+1D4B9", "U+1D4BB", "U+1D4BD", "U+1D4BE", "U+1D4BF", "U+1D4C0", "U+1D4C1",
     "U+1D4C2", "U+1D4C3", "U+1D4C5", "U+1D4C6", "U+1D4C7", "U+1D4C8", "U+1D4C9", "U+1D4CA",
     "U+1D4CB", "U+1D4CC", "U+1D4CD", "U+1D4CE", "U+1D4CF", "U+1D4D0", "U+1D4D1", "U+1D4D2",
     "U+1D4D3", "U+1D4D4", "U+1D4D5", "U+1D4D6", "U+1D4D7", "U+1D4D8", "U+1D4D9", "U+1D4DA",
     "U+1D4DB", "U+1D4DC", "U+1D4DD", "U+1D4DE", "U+1D4DF", "U+1D4E0", "U+1D4E1", "U+1D4E2",
     "U+1D4E3", "U+1D4E4", "U+1D4E5", "U+1D4E6", "U+1D4E7", "U+1D4E8", "U+1D4E9", "U+1D4EA",
     "U+1D4EB", "U+1D4EC", "U+1D4ED", "U+1D4EE", "U+1D4EF", "U+1D4F0", "U+1D4F1", "U+1D4F2",
     "U+1D4F3", "U+1D4F4", "U+1D4F5", "U+1D4F6", "U+1D4F7", "U+1D4F8", "U+1D4F9", "U+1D4FA",
     "U+1D4FB", "U+1D4FC", "U+1D4FD", "U+1D4FE", "U+1D4FF", "U+1D500", "U+1D501", "U+1D502",
     "U+1D503", "U+1D504", "U+1D505", "U+1D507", "U+1D508", "U+1D509", "U+1D50A", "U+1D50D",
     "U+1D50E", "U+1D50F", "U+1D510", "U+1D511", "U+1D512", "U+1D513", "U+1D514", "U+1D516",
     "U+1D517", "U+1D518", "U+1D519", "U+1D51A", "U+1D51B", "U+1D51C", "U+1D51E", "U+1D51F",
     "U+1D520", "U+1D521", "U+1D522", "U+1D523", "U+1D524", "U+1D525", "U+1D526", "U+1D527",
     "U+1D528", "U+1D529", "U+1D52A", "U+1D52B", "U+1D52C", "U+1D52D", "U+1D52E", "U+1D52F",
     "U+1D530", "U+1D531", "U+1D532", "U+1D533", "U+1D534", "U+1D535", "U+1D536", "U+1D537",
     "U+1D538", "U+1D539", "U+1D53B", "U+1D53C", "U+1D53D", "U+1D53E", "U+1D540", "U+1D541",
     "U+1D542", "U+1D543", "U+1D544", "U+1D546", "U+1D54A", "U+1D54B", "U+1D54C", "U+1D54D",
     "U+1D54E", "U+1D54F", "U+1D550", "U+1D552", "U+1D553", "U+1D554", "U+1D555", "U+1D556",
     "U+1D557", "U+1D558", "U+1D559", "U+1D55A", "U+1D55B", "U+1D55C", "U+1D55D", "U+1D55E",
     "U+1D55F", "U+1D560", "U+1D561", "U+1D562", "U+1D563", "U+1D564", "U+1D565", "U+1D566",
     "U+1D567", "U+1D568", "U+1D569", "U+1D56A", "U+1D56B", "U+1D56C", "U+1D56D", "U+1D56E",
     "U+1D56F", "U+1D570", "U+1D571", "U+1D572", "U+1D573", "U+1D574", "U+1D575", "U+1D576",
     "U+1D577", "U+1D578", "U+1D579", "U+1D57A", "U+1D57B", "U+1D57C", "U+1D57D", "U+1D57E",
     "U+1D57F", "U+1D580", "U+1D581", "U+1D582", "U+1D583", "U+1D584", "U+1D585", "U+1D586",
     "U+1D587", "U+1D588", "U+1D589", "U+1D58A", "U+1D58B", "U+1D58C", "U+1D58D", "U+1D58E",
     "U+1D58F", "U+1D590", "U+1D591", "U+1D592", "U+1D593", "U+1D594", "U+1D595", "U+1D596",
     "U+1D597", "U+1D598", "U+1D599", "U+1D59A", "U+1D59B", "U+1D59C", "U+1D59D", "U+1D59E",
     "U+1D59F", "U+1D5A0", "U+1D5A1", "U+1D5A2", "U+1D5A3", "U+1D5A4", "U+1D5A5", "U+1D5A6",
     "U+1D5A7", "U+1D5A8", "U+1D5A9", "U+1D5AA", "U+1D5AB", "U+1D5AC", "U+1D5AD", "U+1D5AE",
     "U+1D5AF", "U+1D5B0", "U+1D5B1", "U+1D5B2", "U+1D5B3", "U+1D5B4", "U+1D5B5", "U+1D5B6",
     "U+1D5B7", "U+1D5B8", "U+1D5B9", "U+1D5BA", "U+1D5BB", "U+1D5BC", "U+1D5BD", "U+1D5BE",
     "U+1D5BF", "U+1D5C0", "U+1D5C1", "U+1D5C2", "U+1D5C3", "U+1D5C4", "U+1D5C5", "U+1D5C6",
     "U+1D5C7", "U+1D5C8", "U+1D5C9", "U+1D5CA", "U+1D5CB", "U+1D5CC", "U+1D5CD", "U+1D5CE",
     "U+1D5CF", "U+1D5D0", "U+1D5D1", "U+1D5D2", "U+1D5D3", "U+1D5D4", "U+1D5D5", "U+1D5D6",
     "U+1D5D7", "U+1D5D8", "U+1D5D9", "U+1D5DA", "U+1D5DB", "U+1D5DC", "U+1D5DD", "U+1D5DE",
     "U+1D5DF", "U+1D5E0", "U+1D5E1", "U+1D5E2", "U+1D5E3", "U+1D5E4", "U+1D5E5", "U+1D5E6",
     "U+1D5E7", "U+1D5E8", "U+1D5E9", "U+1D5EA", "U+1D5EB", "U+1D5EC", "U+1D5ED", "U+1D5EE",
     "U+1D5EF", "U+1D5F0", "U+1D5F1", "U+1D5F2", "U+1D5F3", "U+1D5F4", "U+1D5F5", "U+1D5F6",
     "U+1D5F7", "U+1D5F8", "U+1D5F9", "U+1D5FA", "U+1D5FB", "U+1D5FC", "U+1D5FD", "U+1D5FE",
     "U+1D5FF", "U+1D600", "U+1D601", "U+1D602", "U+1D603", "U+1D604", "U+1D605", "U+1D606",
     "U+1D607", "U+1D608", "U+1D609", "U+1D60A", "U+1D60B", "U+1D60C", "U+1D60D", "U+1D60E",
     "U+1D60F", "U+1D610", "U+1D611", "U+1D612", "U+1D613", "U+1D614", "U+1D615", "U+1D616",
     "U+1D617", "U+1D618", "U+1D619", "U+1D61A", "U+1D61B", "U+1D61C", "U+1D61D", "U+1D61E",
     "U+1D61F", "U+1D620", "U+1D621", "U+1D622", "U+1D623", "U+1D624", "U+1D625", "U+1D626",
     "U+1D627", "U+1D628", "U+1D629", "U+1D62A", "U+1D62B", "U+1D62C", "U+1D62D", "U+1D62E",
     "U+1D62F", "U+1D630", "U+1D631", "U+1D632", "U+1D633", "U+1D634", "U+1D635", "U+1D636",
     "U+1D637", "U+1D638", "U+1D639", "U+1D63A", "U+1D63B", "U+1D63C", "U+1D63D", "U+1D63E",
     "U+1D63F", "U+1D640", "U+1D641", "U+1D642", "U+1D643", "U+1D644", "U+1D645", "U+1D646",
     "U+1D647", "U+1D648", "U+1D649", "U+1D64A", "U+1D64B", "U+1D64C", "U+1D64D", "U+1D64E",
     "U+1D64F", "U+1D650", "U+1D651", "U+1D652", "U+1D653", "U+1D654", "U+1D655", "U+1D656",
     "U+1D657", "U+1D658", "U+1D659", "U+1D65A", "U+1D65B", "U+1D65C", "U+1D65D", "U+1D65E",
     "U+1D65F", "U+1D660", "U+1D661", "U+1D662", "U+1D663", "U+1D664", "U+1D665", "U+1D666",
     "U+1D667", "U+1D668", "U+1D669", "U+1D66A", "U+1D66B", "U+1D66C", "U+1D66D", "U+1D66E",
     "U+1D66F", "U+1D670", "U+1D671", "U+1D672", "U+1D673", "U+1D674", "U+1D675", "U+1D676",
     "U+1D677", "U+1D678", "U+1D679", "U+1D67A", "U+1D67B", "U+1D67C", "U+1D67D", "U+1D67E",
     "U+1D67F", "U+1D680", "U+1D681", "U+1D682", "U+1D683", "U+1D684", "U+1D685", "U+1D686",
     "U+1D687", "U+1D688", "U+1D689", "U+1D68A", "U+1D68B", "U+1D68C", "U+1D68D", "U+1D68E",
     "U+1D68F", "U+1D690", "U+1D691", "U+1D692", "U+1D693", "U+1D694", "U+1D695", "U+1D696",
     "U+1D697", "U+1D698", "U+1D699", "U+1D69A", "U+1D69B", "U+1D69C", "U+1D69D", "U+1D69E",
     "U+1D69F", "U+1D6A0", "U+1D6A1", "U+1D6A2", "U+1D6A3", "U+1D6A4", "U+1D6A5", "U+1D6A8",
     "U+1D6A9", "U+1D6AA", "U+1D6AB", "U+1D6AC", "U+1D6AD", "U+1D6AE", "U+1D6AF", "U+1D6B0",
     "U+1D6B1", "U+1D6B2", "U+1D6B3", "U+1D6B4", "U+1D6B5", "U+1D6B6", "U+1D6B7", "U+1D6B8",
     "U+1D6B9", "U+1D6BA", "U+1D6BB", "U+1D6BC", "U+1D6BD", "U+1D6BE", "U+1D6BF", "U+1D6C0",
     "U+1D6C2", "U+1D6C3", "U+1D6C4", "U+1D6C5", "U+1D6C6", "U+1D6C7", "U+1D6C8", "U+1D6C9",
     "U+1D6CA", "U+1D6CB", "U+1D6CC", "U+1D6CD", "U+1D6CE", "U+1D6CF", "U+1D6D0", "U+1D6D1",
     "U+1D6D2", "U+1D6D3", "U+1D6D4", "U+1D6D5", "U+1D6D6", "U+1D6D7", "U+1D6D8", "U+1D6D9",
     "U+1D6DA", "U+1D6DC", "U+1D6DD", "U+1D6DE", "U+1D6DF", "U+1D6E0", "U+1D6E1", "U+1D6E2",
     "U+1D6E3", "U+1D6E4", "U+1D6E5", "U+1D6E6", "U+1D6E7", "U+1D6E8", "U+1D6E9", "U+1D6EA",
     "U+1D6EB", "U+1D6EC", "U+1D6ED", "U+1D6EE", "U+1D6EF", "U+1D6F0", "U+1D6F1", "U+1D6F2",
     "U+1D6F3", "U+1D6F4", "U+1D6F5", "U+1D6F6", "U+1D6F7", "U+1D6F8", "U+1D6F9", "U+1D6FA",
     "U+1D6FC", "U+1D6FD", "U+1D6FE", "U+1D6FF", "U+1D700", "U+1D701", "U+1D702", "U+1D703",
     "U+1D704", "U+1D705", "U+1D706", "U+1D707", "U+1D708", "U+1D709", "U+1D70A", "U+1D70B",
     "U+1D70C", "U+1D70D", "U+1D70E", "U+1D70F", "U+1D710", "U+1D711", "U+1D712", "U+1D713",
     "U+1D714", "U+1D716", "U+1D717", "U+1D718", "U+1D719", "U+1D71A", "U+1D71B", "U+1D71C",
     "U+1D71D", "U+1D71E", "U+1D71F", "U+1D720", "U+1D721", "U+1D722", "U+1D723", "U+1D724",
     "U+1D725", "U+1D726", "U+1D727", "U+1D728", "U+1D729", "U+1D72A", "U+1D72B", "U+1D72C",
     "U+1D72D", "U+1D72E", "U+1D72F", "U+1D730", "U+1D731", "U+1D732", "U+1D733", "U+1D734",
     "U+1D736", "U+1D737", "U+1D738", "U+1D739", "U+1D73A", "U+1D73B", "U+1D73C", "U+1D73D",
     "U+1D73E", "U+1D73F", "U+1D740", "U+1D741", "U+1D742", "U+1D743", "U+1D744", "U+1D745",
     "U+1D746", "U+1D747", "U+1D748", "U+1D749", "U+1D74A", "U+1D74B", "U+1D74C", "U+1D74D",
     "U+1D74E", "U+1D750", "U+1D751", "U+1D752", "U+1D753", "U+1D754", "U+1D755", "U+1D756",
     "U+1D757", "U+1D758", "U+1D759", "U+1D75A", "U+1D75B", "U+1D75C", "U+1D75D", "U+1D75E",
     "U+1D75F", "U+1D760", "U+1D761", "U+1D762", "U+1D763", "U+1D764", "U+1D765", "U+1D766",
     "U+1D767", "U+1D768", "U+1D769", "U+1D76A", "U+1D76B", "U+1D76C", "U+1D76D", "U+1D76E",
     "U+1D770", "U+1D771", "U+1D772", "U+1D773", "U+1D774", "U+1D775", "U+1D776", "U+1D777",
     "U+1D778", "U+1D779", "U+1D77A", "U+1D77B", "U+1D77C", "U+1D77D", "U+1D77E", "U+1D77F",
     "U+1D780", "U+1D781", "U+1D782", "U+1D783", "U+1D784", "U+1D785", "U+1D786", "U+1D787",
     "U+1D788", "U+1D78A", "U+1D78B", "U+1D78C", "U+1D78D", "U+1D78E", "U+1D78F", "U+1D790",
     "U+1D791", "U+1D792", "U+1D793", "U+1D794", "U+1D795", "U+1D796", "U+1D797", "U+1D798",
     "U+1D799", "U+1D79A", "U+1D79B", "U+1D79C", "U+1D79D", "U+1D79E", "U+1D79F", "U+1D7A0",
     "U+1D7A1", "U+1D7A2", "U+1D7A3", "U+1D7A4", "U+1D7A5", "U+1D7A6", "U+1D7A7", "U+1D7A8",
     "U+1D7AA", "U+1D7AB", "U+1D7AC", "U+1D7AD", "U+1D7AE", "U+1D7AF", "U+1D7B0", "U+1D7B1",
     "U+1D7B2", "U+1D7B3", "U+1D7B4", "U+1D7B5", "U+1D7B6", "U+1D7B7", "U+1D7B8", "U+1D7B9",
     "U+1D7BA", "U+1D7BB", "U+1D7BC", "U+1D7BD", "U+1D7BE", "U+1D7BF", "U+1D7C0", "U+1D7C1",
     "U+1D7C2", "U+1D7C4", "U+1D7C5", "U+1D7C6", "U+1D7C7", "U+1D7C8", "U+1D7C9", "U+1D7CA",
     "U+1D7CB", "U+1DF00", "U+1DF01", "U+1DF02", "U+1DF03", "U+1DF04", "U+1DF05", "U+1DF06",
     "U+1DF07", "U+1DF08", "U+1DF09", "U+1DF0B", "U+1DF0C", "U+1DF0D", "U+1DF0E", "U+1DF0F",
     "U+1DF10", "U+1DF11", "U+1DF12", "U+1DF13", "U+1DF14", "U+1DF15", "U+1DF16", "U+1DF17",
     "U+1DF18", "U+1DF19", "U+1DF1A", "U+1DF1B", "U+1DF1C", "U+1DF1D", "U+1DF1E", "U+1E900",
     "U+1E901", "U+1E902", "U+1E903", "U+1E904", "U+1E905", "U+1E906", "U+1E907", "U+1E908",
     "U+1E909", "U+1E90A", "U+1E90B", "U+1E90C", "U+1E90D", "U+1E90E", "U+1E90F", "U+1E910",
     "U+1E911", "U+1E912", "U+1E913", "U+1E914", "U+1E915", "U+1E916", "U+1E917", "U+1E918",
     "U+1E919", "U+1E91A", "U+1E91B", "U+1E91C", "U+1E91D", "U+1E91E", "U+1E91F", "U+1E920",
     "U+1E921", "U+1E922", "U+1E923", "U+1E924", "U+1E925", "U+1E926", "U+1E927", "U+1E928",
     "U+1E929", "U+1E92A", "U+1E92B", "U+1E92C", "U+1E92D", "U+1E92E", "U+1E92F", "U+1E930",
     "U+1E931", "U+1E932", "U+1E933", "U+1E934", "U+1E935", "U+1E936", "U+1E937", "U+1E938",
     "U+1E939", "U+1E93A", "U+1E93B", "U+1E93C", "U+1E93D", "U+1E93E", "U+1E93F", "U+1E940",
     "U+1E941", "U+1E942", "U+1E943", "U+1F130", "U+1F131", "U+1F132", "U+1F133", "U+1F134",
     "U+1F135", "U+1F136", "U+1F137", "U+1F138", "U+1F139", "U+1F13A", "U+1F13B", "U+1F13C",
     "U+1F13D", "U+1F13E", "U+1F13F", "U+1F140", "U+1F141", "U+1F142", "U+1F143", "U+1F144",
     "U+1F145", "U+1F146", "U+1F147", "U+1F148", "U+1F149", "U+1F150", "U+1F151", "U+1F152",
     "U+1F153", "U+1F154", "U+1F155", "U+1F156", "U+1F157", "U+1F158", "U+1F159", "U+1F15A",
     "U+1F15B", "U+1F15C", "U+1F15D", "U+1F15E", "U+1F15F", "U+1F160", "U+1F161", "U+1F162",
     "U+1F163", "U+1F164", "U+1F165", "U+1F166", "U+1F167", "U+1F168", "U+1F169", "U+1F170",
     "U+1F171", "U+1F172", "U+1F173", "U+1F174", "U+1F175", "U+1F176", "U+1F177", "U+1F178",
     "U+1F179", "U+1F17A", "U+1F17B", "U+1F17C", "U+1F17D", "U+1F17E", "U+1F17F", "U+1F180",
     "U+1F181", "U+1F182", "U+1F183", "U+1F184", "U+1F185", "U+1F186", "U+1F187", "U+1F188",
     "U+1F189"}

\* the case-ignorable characters
CaseIgnorable ==
    {"'", ".", ":", "^", "U+0060", "¨", "­", "¯", "´", "·", "¸", "ʰ", "ʱ", "ʲ", "ʳ", "ʴ", "ʵ",
     "ʶ", "ʷ", "ʸ", "ʹ", "ʺ", "ʻ", "ʼ", "ʽ", "ʾ", "ʿ", "ˀ", "ˁ", "˂", "˃", "˄", "˅", "ˆ", "ˇ",
     "ˈ", "ˉ", "ˊ", "ˋ", "ˌ", "ˍ", "ˎ", "ˏ", "ː", "ˑ", "˒", "˓", "˔", "˕", "˖", "˗", "˘", "˙",
     "˚", "˛", "˜", "˝", "˞", "˟", "ˠ", "ˡ", "ˢ", "ˣ", "ˤ", "˥", "˦", "˧", "˨", "˩", "˪", "˫",
     "ˬ", "˭", "ˮ", "˯", "˰", "˱", "˲", "˳", "˴", "˵", "˶", "˷", "˸", "˹", "˺", "˻", "˼", "˽",
     "˾", "˿", "U+0300", "U+0301", "U+0302", "U+0303", "U+0304", "U+0305", "U+0306", "U+0307",
     "U+0308", "U+0309", "U+030A", "U+030B", "U+030C", "U+030D", "U+030E", "U+030F", "U+0310",
     "U+0311", "U+0312", "U+0313", "U+0314", "U+0315", "U+0316", "U+0317", "U+0318", "U+0319",
     "U+031A", "U+031B", "U+031C", "U+031D", "U+031E", "U+031F", "U+0320", "U+0321", "U+0322",
     "U+0323", "U+0324", "U+0325", "U+0326", "U+0327", "U+0328", "U+0329", "U+032A", "U+032B",
     "U+032C", "U+032D", "U+032E", "U+032F", "U+0330", "U+0331", "U+0332", "U+0333", "U+0334",
     "U+0335", "U+0336", "U+0337", "U+0338", "U+0339", "U+033A", "U+033B", "U+033C", "U+033D",
     "U+033E", "U+033F", "U+0340", "U+0341", "U+0342", "U+0343", "U+0344", "U+0345", "U+0346",
     "U+0347", "U+0348", "U+0349", "U+034A", "U+034B", "U+034C", "U+034D", "U+034E", "U+034F",
     "U+0350", "U+0351", "U+0352", "U+0353", "U+0354", "U+0355", "U+0356", "U+0357", "U+0358",
     "U+0359", "U+035A", "U+035B", "U+035C", "U+035D", "U+035E", "U+035F", "U+0360", "U+0361",
     "U+0362", "U+0363", "U+0364", "U+0365", "U+0366", "U+0367", "U+0368", "U+0369", "U+036A",
     "U+036B", "U+036C", "U+036D", "U+036E", "U+036F", "U+0374", "U+0375", "U+037A", "΄", "΅",
     "·", "҃", "҄", "҅", "҆", "҇", "҈", "҉", "U+0559", "U+055F", "֑", "֒", "֓", "֔", "֕", "֖",
     "֗", "֘", "֙", "֚", "֛", "֜", "֝", "֞", "֟", "֠", "֡", "֢", "֣", "֤", "֥", "֦", "֧", "֨",
     "֩", "֪", "֫", "֬", "֭", "֮", "֯", "ְ", "ֱ", "ֲ", "ֳ", "ִ", "ֵ", "ֶ", "ַ", "ָ", "ֹ", "ֺ",
     "ֻ", "ּ", "ֽ", "ֿ", "ׁ", "ׂ", "ׄ", "ׅ", "ׇ", "״", "U+0600", "U+0601", "U+0602", "U+0603",
     "U+0604", "U+0605", "U+0610", "U+0611", "U+0612", "U+0613", "U+0614", "U+0615", "U+0616",
     "U+0617", "U+0618", "U+0619", "U+061A", "U+061C", "U+0640", "U+064B", "U+064C", "U+064D",
     "U+064E", "U+064F", "U+0650", "U+0651", "U+0652", "U+0653", "U+0654", "U+0655", "U+0656",
     "U+0657", "U+0658", "U+0659", "U+065A", "U+065B", "U+065C", "U+065D", "U+065E", "U+065F",
     "U+0670", "ۖ", "ۗ", "ۘ", "ۙ", "ۚ", "ۛ", "ۜ", "۝", "۟", "۠", "ۡ", "ۢ", "ۣ", "ۤ", "ۥ", "ۦ",
     "ۧ", "ۨ", "۪", "۫", "۬", "ۭ", "U+070F", "U+0711", "U+0730", "U+0731", "U+0732", "U+0733",
     "U+0734", "U+0735", "U+0736", "U+0737", "U+0738", "U+0739", "U+073A", "U+073B", "U+073C",
     "U+073D", "U+073E", "U+073F", "U+0740", "U+0741", "U+0742", "U+0743", "U+0744", "U+0745",
     "U+0746", "U+0747", "U+0748", "U+0749", "U+074A", "ަ", "ާ", "ި", "ީ", "ު", "ޫ", "ެ", "ޭ",
     "ޮ", "ޯ", "ް", "߫", "߬", "߭", "߮", "߯", "߰", "߱", "߲", "߳", "ߴ", "ߵ", "ߺ", "߽", "U+0816",
     "U+0817", "U+0818", "U+0819", "U+081A", "U+081B", "U+081C", "U+081D", "U+081E", "U+081F",
     "U+0820", "U+0821", "U+0822", "U+0823", "U+0824", "U+0825", "U+0826", "U+0827", "U+0828",
     "U+0829", "U+082A", "U+082B", "U+082C", "U+082D", "U+0859", "U+085A", "U+085B", "࢈", "࢐",
     "࢑", "࢘", "࢙", "࢚", "࢛", "࢜", "࢝", "࢞", "࢟", "ࣉ", "࣊", "࣋", "࣌", "࣍", "࣎", "࣏", "࣐", "࣑",
     "࣒", "࣓", "ࣔ", "ࣕ", "ࣖ", "ࣗ", "ࣘ", "ࣙ", "ࣚ", "ࣛ", "ࣜ", "ࣝ", "ࣞ", "ࣟ", "࣠", "࣡", "࣢", "ࣣ",
     "ࣤ", "ࣥ", "ࣦ", "ࣧ", "ࣨ", "ࣩ", "࣪", "࣫", "࣬", "࣭", "࣮", "࣯", "ࣰ", "ࣱ", "ࣲ", "ࣳ", "ࣴ", "ࣵ",
     "ࣶ", "ࣷ", "ࣸ", "ࣹ", "ࣺ", "ࣻ", "ࣼ", "ࣽ", "ࣾ", "ࣿ", "U+0900", "U+0901", "U+0902", "U+093A",
     "U+093C", "U+0941", "U+0942", "U+0943", "U+0944", "U+0945", "U+0946", "U+0947", "U+0948",
     "U+094D", "U+0951", "U+0952", "U+0953", "U+0954", "U+0955", "U+0956", "U+0957", "U+0962",
     "U+0963", "U+0971", "ঁ", "়", "ু", "ূ", "ৃ", "ৄ", "্", "ৢ", "ৣ", "৾", "U+0A01", "U+0A02",
     "U+0A3C", "U+0A41", "U+0A42", "U+0A47", "U+0A48", "U+0A4B", "U+0A4C", "U+0A4D", "U+0A51",
     "U+0A70", "U+0A71", "U+0A75", "ઁ", "ં", "઼", "ુ", "ૂ", "ૃ", "ૄ", "ૅ", "ે", "ૈ", "્", "ૢ",
     "ૣ", "ૺ", "ૻ", "ૼ", "૽", "૾", "૿", "U+0B01", "U+0B3C", "U+0B3F", "U+0B41", "U+0B42",
     "U+0B43", "U+0B44", "U+0B4D", "U+0B55", "U+0B56", "U+0B62", "U+0B63", "ஂ", "ீ", "்",
     "U+0C00", "U+0C04", "U+0C3C", "U+0C3E", "U+0C3F", "U+0C40", "U+0C46", "U+0C47", "U+0C48",
     "U+0C4A", "U+0C4B", "U+0C4C", "U+0C4D", "U+0C55", "U+0C56", "U+0C62", "U+0C63", "ಁ", "಼",
     "ಿ", "ೆ", "ೌ", "್", "ೢ", "ೣ", "U+0D00", "U+0D01", "U+0D3B", "U+0D3C", "U+0D41", "U+0D42",
     "U+0D43", "U+0D44", "U+0D4D", "U+0D62", "U+0D63", "ඁ", "්", "ි", "ී", "ු", "ූ", "U+0E31",
     "U+0E34", "U+0E35", "U+0E36", "U+0E37", "U+0E38", "U+0E39", "U+0E3A", "U+0E46", "U+0E47",
     "U+0E48", "U+0E49", "U+0E4A", "U+0E4B", "U+0E4C", "U+0E4D", "U+0E4E", "ັ", "ິ", "ີ", "ຶ",
     "ື", "ຸ", "ູ", "຺", "ົ", "ຼ", "ໆ", "່", "້", "໊", "໋", "໌", "ໍ", "U+0F18", "U+0F19",
     "U+0F35", "U+0F37", "U+0F39", "U+0F71", "U+0F72", "U+0F73", "U+0F74", "U+0F75", "U+0F76",
     "U+0F77", "U+0F78", "U+0F79", "U+0F7A", "U+0F7B", "U+0F7C", "U+0F7D", "U+0F7E", "ྀ", "ཱྀ",
     "ྂ", "ྃ", "྄", "྆", "྇", "ྍ", "ྎ", "ྏ", "ྐ", "ྑ", "ྒ", "ྒྷ", "ྔ", "ྕ", "ྖ", "ྗ", "ྙ", "ྚ",
     "ྛ", "ྜ", "ྜྷ", "ྞ", "ྟ", "ྠ", "ྡ", "ྡྷ", "ྣ", "ྤ", "ྥ", "ྦ", "ྦྷ", "ྨ", "ྩ", "ྪ", "ྫ", "ྫྷ",
     "ྭ", "ྮ", "ྯ", "ྰ", "ྱ", "ྲ", "ླ", "ྴ", "ྵ", "ྶ", "ྷ", "ྸ", "ྐྵ", "ྺ", "ྻ", "ྼ", "࿆",
     "U+102D", "U+102E", "U+102F", "U+1030", "U+1032", "U+1033", "U+1034", "U+1035", "U+1036",
     "U+1037", "U+1039", "U+103A", "U+103D", "U+103E", "U+1058", "U+1059", "U+105E", "U+105F",
     "U+1060", "U+1071", "U+1072", "U+1073", "U+1074", "ႂ", "ႅ", "ႆ", "ႍ", "ႝ", "ჼ", "U+135D",
     "U+135E", "U+135F", "U+1712", "U+1713", "U+1714", "U+1732", "U+1733", "U+1752", "U+1753",
     "U+1772", "U+1773", "឴", "឵", "ិ", "ី", "ឹ", "ឺ", "ុ", "ូ", "ួ", "ំ", "៉", "៊", "់", "៌",
     "៍", "៎", "៏", "័", "៑", "្", "៓", "ៗ", "៝", "U+180B", "U+180C", "U+180D", "U+180E",
     "U+180F", "U+1843", "ᢅ", "ᢆ", "ᢩ", "U+1920", "U+1921", "U+1922", "U+1927", "U+1928",
     "U+1932", "U+1939", "U+193A", "U+193B", "U+1A17", "U+1A18", "U+1A1B", "U+1A56", "U+1A58",
     "U+1A59", "U+1A5A", "U+1A5B", "U+1A5C", "U+1A5D", "U+1A5E", "U+1A60", "U+1A62", "U+1A65",
     "U+1A66", "U+1A67", "U+1A68", "U+1A69", "U+1A6A", "U+1A6B", "U+1A6C", "U+1A73", "U+1A74",
     "U+1A75", "U+1A76", "U+1A77", "U+1A78", "U+1A79", "U+1A7A", "U+1A7B", "U+1A7C", "U+1A7F",
     "ᪧ", "᪰", "᪱", "᪲", "᪳", "᪴", "᪵", "᪶", "᪷", "᪸", "᪹", "᪺", "᪻", "᪼", "᪽", "᪾", "ᪿ", "ᫀ",
     "᫁", "᫂", "᫃", "᫄", "᫅", "᫆", "᫇", "᫈", "᫉", "᫊", "᫋", "ᫌ", "ᫍ", "ᫎ", "U+1B00", "U+1B01",
     "U+1B02", "U+1B03", "U+1B34", "U+1B36", "U+1B37", "U+1B38", "U+1B39", "U+1B3A", "U+1B3C",
     "U+1B42", "U+1B6B", "U+1B6C", "U+1B6D", "U+1B6E", "U+1B6F", "U+1B70", "U+1B71", "U+1B72",
     "U+1B73", "ᮀ", "ᮁ", "ᮢ", "ᮣ", "ᮤ", "ᮥ", "ᮨ", "ᮩ", "᮫", "ᮬ", "ᮭ", "᯦", "ᯨ", "ᯩ", "ᯭ", "ᯯ",
     "ᯰ", "ᯱ", "U+1C2C", "U+1C2D", "U+1C2E", "U+1C2F", "U+1C30", "U+1C31", "U+1C32", "U+1C33",
     "U+1C36", "U+1C37", "U+1C78", "U+1C79", "U+1C7A", "U+1C7B", "U+1C7C", "U+1C7D", "᳐", "᳑",
     "᳒", "᳔", "᳕", "᳖", "᳗", "᳘", "᳙", "᳚", "᳛", "᳜", "᳝", "᳞", "᳟", "᳠", "᳢", "᳣", "᳤", "᳥",
     "᳦", "᳧", "᳨", "᳭", "᳴", "᳸", "᳹", "U+1D2C", "U+1D2D", "U+1D2E", "U+1D2F", "U+1D30",
     "U+1D31", "U+1D32", "U+1D33", "U+1D34", "U+1D35", "U+1D36", "U+1D37", "U+1D38", "U+1D39",
     "U+1D3A", "U+1D3B", "U+1D3C", "U+1D3D", "U+1D3E", "U+1D3F", "U+1D40", "U+1D41", "U+1D42",
     "U+1D43", "U+1D44", "U+1D45", "U+1D46", "U+1D47", "U+1D48", "U+1D49", "U+1D4A", "U+1D4B",
     "U+1D4C", "U+1D4D", "U+1D4E", "U+1D4F", "U+1D50", "U+1D51", "U+1D52", "U+1D53", "U+1D54",
     "U+1D55", "U+1D56", "U+1D57", "U+1D58", "U+1D59", "U+1D5A", "U+1D5B", "U+1D5C", "U+1D5D",
     "U+1D5E", "U+1D5F", "U+1D60", "U+1D61", "U+1D62", "U+1D63", "U+1D64", "U+1D65", "U+1D66",
     "U+1D67", "U+1D68", "U+1D69", "U+1D6A", "U+1D78", "ᶛ", "ᶜ", "ᶝ", "ᶞ", "ᶟ", "ᶠ", "ᶡ", "ᶢ",
     "ᶣ", "ᶤ", "ᶥ", "ᶦ", "ᶧ", "ᶨ", "ᶩ", "ᶪ", "ᶫ", "ᶬ", "ᶭ", "ᶮ", "ᶯ", "ᶰ", "ᶱ", "ᶲ", "ᶳ", "ᶴ",
     "ᶵ", "ᶶ", "ᶷ", "ᶸ", "ᶹ", "ᶺ", "ᶻ", "ᶼ", "ᶽ", "ᶾ", "ᶿ", "᷀", "᷁", "᷂", "᷃", "᷄", "᷅", "᷆",
     "᷇", "᷈", "᷉", "᷊", "᷋", "᷌", "᷍", "᷎", "᷏", "᷐", "᷑", "᷒", "ᷓ", "ᷔ", "ᷕ", "ᷖ", "ᷗ", "ᷘ",
     "ᷙ", "ᷚ", "ᷛ", "ᷜ", "ᷝ", "ᷞ", "ᷟ", "ᷠ", "ᷡ", "ᷢ", "ᷣ", "ᷤ", "ᷥ", "ᷦ", "ᷧ", "ᷨ", "ᷩ", "ᷪ",
     "ᷫ", "ᷬ", "ᷭ", "ᷮ", "ᷯ", "ᷰ", "ᷱ", "ᷲ", "ᷳ", "ᷴ", "᷵", "᷶", "᷷", "᷸", "᷹", "᷺", "᷻", "᷼",
     "᷽", "᷾", "᷿", "᾽", "᾿", "῀", "῁", "῍", "῎", "῏", "῝", "῞", "῟", "῭", "΅", "`", "´", "῾",
     "U+200B", "U+200C", "U+200D", "U+200E", "U+200F", "U+2018", "U+2019", "U+2024", "U+2027",
     "U+202A", "U+202B", "U+202C", "U+202D", "U+202E", "U+2060", "U+2061", "U+2062", "U+2063",
     "U+2064", "U+2066", "U+2067", "U+2068", "U+2069", "U+206A", "U+206B", "U+206C", "U+206D",
     "U+206E", "U+206F", "U+2071", "U+207F", "ₐ", "ₑ", "ₒ", "ₓ", "ₔ", "ₕ", "ₖ", "ₗ", "ₘ", "ₙ",
     "ₚ", "ₛ", "ₜ", "⃐", "⃑", "⃒", "⃓", "⃔", "⃕", "⃖", "⃗", "⃘", "⃙", "⃚", "⃛", "⃜", "⃝", "⃞",
     "⃟", "⃠", "⃡", "⃢", "⃣", "⃤", "⃥", "⃦", "⃧", "⃨", "⃩", "⃪", "⃫", "⃬", "⃭", "⃮", "⃯", "⃰",
     "U+2C7C", "U+2C7D", "⳯", "⳰", "⳱", "U+2D6F", "U+2D7F", "ⷠ", "ⷡ", "ⷢ", "ⷣ", "ⷤ", "ⷥ", "ⷦ",
     "ⷧ", "ⷨ", "ⷩ", "ⷪ", "ⷫ", "ⷬ", "ⷭ", "ⷮ", "ⷯ", "ⷰ", "ⷱ", "ⷲ", "ⷳ", "ⷴ", "ⷵ", "ⷶ", "ⷷ", "ⷸ",
     "ⷹ", "ⷺ", "ⷻ", "ⷼ", "ⷽ", "ⷾ", "ⷿ", "U+2E2F", "U+3005", "U+302A", "U+302B", "U+302C",
     "U+302D", "U+3031", "U+3032", "U+3033", "U+3034", "U+3035", "U+303B", "゙", "゚", "゛", "゜",
     "ゝ", "ゞ", "ー", "ヽ", "ヾ", "U+A015", "ꓸ", "ꓹ", "ꓺ", "ꓻ", "ꓼ", "ꓽ", "U+A60C", "U+A66F",
     "U+A670", "U+A671", "U+A672", "U+A674", "U+A675", "U+A676", "U+A677", "U+A678", "U+A679",
     "U+A67A", "U+A67B", "U+A67C", "U+A67D", "U+A67F", "ꚜ", "ꚝ", "ꚞ", "ꚟ", "꛰", "꛱", "U+A700",
     "U+A701", "U+A702", "U+A703", "U+A704", "U+A705", "U+A706", "U+A707", "U+A708", "U+A709",
     "U+A70A", "U+A70B", "U+A70C", "U+A70D", "U+A70E", "U+A70F", "U+A710", "U+A711", "U+A712",
     "U+A713", "U+A714", "U+A715", "U+A716", "U+A717", "U+A718", "U+A719", "U+A71A", "U+A71B",
     "U+A71C", "U+A71D", "U+A71E", "U+A71F", "U+A720", "U+A721", "U+A770", "ꞈ", "꞉", "꞊", "ꟲ",
     "ꟳ", "ꟴ", "ꟸ", "ꟹ", "U+A802", "U+A806", "U+A80B", "U+A825", "U+A826", "U+A82C", "꣄", "ꣅ",
     "꣠", "꣡", "꣢", "꣣", "꣤", "꣥", "꣦", "꣧", "꣨", "꣩", "꣪", "꣫", "꣬", "꣭", "꣮", "꣯", "꣰", "꣱",
     "ꣿ", "U+A926", "U+A927", "U+A928", "U+A929", "U+A92A", "U+A92B", "U+A92C", "U+A92D",
     "U+A947", "U+A948", "U+A949", "U+A94A", "U+A94B", "U+A94C", "U+A94D", "U+A94E", "U+A94F",
     "U+A950", "U+A951", "ꦀ", "ꦁ", "ꦂ", "꦳", "ꦶ", "ꦷ", "ꦸ", "ꦹ", "ꦼ", "ꦽ", "ꧏ", "ꧥ", "ꧦ",
     "U+AA29", "U+AA2A", "U+AA2B", "U+AA2C", "U+AA2D", "U+AA2E", "U+AA31", "U+AA32", "U+AA35",
     "U+AA36", "U+AA43", "U+AA4C", "U+AA70", "U+AA7C", "ꪰ", "ꪲ", "ꪳ", "ꪴ", "ꪷ", "ꪸ", "ꪾ", "꪿",
     "꫁", "ꫝ", "ꫬ", "ꫭ", "ꫳ", "ꫴ", "꫶", "U+AB5B", "U+AB5C", "U+AB5D", "U+AB5E", "U+AB5F",
     "U+AB69", "U+AB6A", "U+AB6B", "ꯥ", "ꯨ", "꯭", "U+FB1E", "﮲", "﮳", "﮴", "﮵", "﮶", "﮷", "﮸",
     "﮹", "﮺", "﮻", "﮼", "﮽", "﮾", "﮿", "﯀", "﯁", "﯂", "U+FE00", "U+FE01", "U+FE02", "U+FE03",
     "U+FE04", "U+FE05", "U+FE06", "U+FE07", "U+FE08", "U+FE09", "U+FE0A", "U+FE0B", "U+FE0C",
     "U+FE0D", "U+FE0E", "U+FE0F", "U+FE13", "U+FE20", "U+FE21", "U+FE22", "U+FE23", "U+FE24",
     "U+FE25", "U+FE26", "U+FE27", "U+FE28", "U+FE29", "U+FE2A", "U+FE2B", "U+FE2C", "U+FE2D",
     "U+FE2E", "U+FE2F", "U+FE52", "U+FE55", "﻿", "U+FF07", "U+FF0E", "U+FF1A", "U+FF3E",
     "U+FF40", "U+FF70", "ﾞ", "ﾟ", "￣", "￹", "￺", "￻", "U+101FD", "U+102E0", "U+10376",
     "U+10377", "U+10378", "U+10379", "U+1037A", "U+10780", "U+10781", "U+10782", "U+10783",
     "U+10784", "U+10785", "U+10787", "U+10788", "U+10789", "U+1078A", "U+1078B", "U+1078C",
     "U+1078D", "U+1078E", "U+1078F", "U+10790", "U+10791", "U+10792", "U+10793", "U+10794",
     "U+10795", "U+10796", "U+10797", "U+10798", "U+10799", "U+1079A", "U+1079B", "U+1079C",
     "U+1079D", "U+1079E", "U+1079F", "U+107A0", "U+107A1", "U+107A2", "U+107A3", "U+107A4",
     "U+107A5", "U+107A6", "U+107A7", "U+107A8", "U+107A9", "U+107AA", "U+107AB", "U+107AC",
     "U+107AD", "U+107AE", "U+107AF", "U+107B0", "U+107B2", "U+107B3", "U+107B4", "U+107B5",
     "U+107B6", "U+107B7", "U+107B8", "U+107B9", "U+107BA", "U+10A01", "U+10A02", "U+10A03",
     "U+10A05", "U+10A06", "U+10A0C", "U+10A0D", "U+10A0E", "U+10A0F", "U+10A38", "U+10A39",
     "U+10A3A", "U+10A3F", "U+10AE5", "U+10AE6", "U+10D24", "U+10D25", "U+10D26", "U+10D27",
     "U+10EAB", "U+10EAC", "U+10F46", "U+10F47", "U+10F48", "U+10F49", "U+10F4A", "U+10F4B",
     "U+10F4C", "U+10F4D", "U+10F4E", "U+10F4F", "U+10F50", "U+10F82", "U+10F83", "U+10F84",
     "U+10F85", "U+11001", "U+11038", "U+11039", "U+1103A", "U+1103B", "U+1103C", "U+1103D",
     "U+1103E", "U+1103F", "U+11040", "U+11041", "U+11042", "U+11043", "U+11044", "U+11045",
     "U+11046", "U+11070", "U+11073", "U+11074", "U+1107F", "U+11080", "U+11081", "U+110B3",
     "U+110B4", "U+110B5", "U+110B6", "U+110B9", "U+110BA", "U+110BD", "U+110C2", "U+110CD",
     "U+11100", "U+11101", "U+11102", "U+11127", "U+11128", "U+11129", "U+1112A", "U+1112B",
     "U+1112D", "U+1112E", "U+1112F", "U+11130", "U+11131", "U+11132", "U+11133", "U+11134",
     "U+11173", "U+11180", "U+11181", "U+111B6", "U+111B7", "U+111B8", "U+111B9", "U+111BA",
     "U+111BB", "U+111BC", "U+111BD", "U+111BE", "U+111C9", "U+111CA", "U+111CB", "U+111CC",
     "U+111CF", "U+1122F", "U+11230", "U+11231", "U+11234", "U+11236", "U+11237", "U+1123E",
     "U+112DF", "U+112E3", "U+112E4", "U+112E5", "U+112E6", "U+112E7", "U+112E8", "U+112E9",
     "U+112EA", "U+11300", "U+11301", "U+1133B", "U+1133C", "U+11340", "U+11366", "U+11367",
     "U+11368", "U+11369", "U+1136A", "U+1136B", "U+1136C", "U+11370", "U+11371", "U+11372",
     "U+11373", "U+11374", "U+11438", "U+11439", "U+1143A", "U+1143B", "U+1143C", "U+1143D",
     "U+1143E", "U+1143F", "U+11442", "U+11443", "U+11444", "U+11446", "U+1145E", "U+114B3",
     "U+114B4", "U+114B5", "U+114B6", "U+114B7", "U+114B8", "U+114BA", "U+114BF", "U+114C0",
     "U+114C2", "U+114C3", "U+115B2", "U+115B3", "U+115B4", "U+115B5", "U+115BC", "U+115BD",
     "U+115BF", "U+115C0", "U+115DC", "U+115DD", "U+11633", "U+11634", "U+11635", "U+11636",
     "U+11637", "U+11638", "U+11639", "U+1163A", "U+1163D", "U+1163F", "U+11640", "U+116AB",
     "U+116AD", "U+116B0", "U+116B1", "U+116B2", "U+116B3", "U+116B4", "U+116B5", "U+116B7",
     "U+1171D", "U+1171E", "U+1171F", "U+11722", "U+11723", "U+11724", "U+11725", "U+11727",
     "U+11728", "U+11729", "U+1172A", "U+1172B", "U+1182F", "U+11830", "U+11831", "U+11832",
     "U+11833", "U+11834", "U+11835", "U+11836", "U+11837", "U+11839", "U+1183A", "U+1193B",
     "U+1193C", "U+1193E", "U+11943", "U+119D4", "U+119D5", "U+119D6", "U+119D7", "U+119DA",
     "U+119DB", "U+119E0", "U+11A01", "U+11A02", "U+11A03", "U+11A04", "U+11A05", "U+11A06",
     "U+11A07", "U+11A08", "U+11A09", "U+11A0A", "U+11A33", "U+11A34", "U+11A35", "U+11A36",
     "U+11A37", "U+11A38", "U+11A3B", "U+11A3C", "U+11A3D", "U+11A3E", "U+11A47", "U+11A51",
     "U+11A52", "U+11A53", "U+11A54", "U+11A55", "U+11A56", "U+11A59", "U+11A5A", "U+11A5B",
     "U+11A8A", "U+11A8B", "U+11A8C", "U+11A8D", "U+11A8E", "U+11A8F", "U+11A90", "U+11A91",
     "U+11A92", "U+11A93", "U+11A94", "U+11A95", "U+11A96", "U+11A98", "U+11A99", "U+11C30",
     "U+11C31", "U+11C32", "U+11C33", "U+11C34", "U+11C35", "U+11C36", "U+11C38", "U+11C39",
     "U+11C3A", "U+11C3B", "U+11C3C", "U+11C3D", "U+11C3F", "U+11C92", "U+11C93", "U+11C94",
     "U+11C95", "U+11C96", "U+11C97", "U+11C98", "U+11C99", "U+11C9A", "U+11C9B", "U+11C9C",
     "U+11C9D", "U+11C9E", "U+11C9F", "U+11CA0", "U+11CA1", "U+11CA2", "U+11CA3", "U+11CA4",
     "U+11CA5", "U+11CA6", "U+11CA7", "U+11CAA", "U+11CAB", "U+11CAC", "U+11CAD", "U+11CAE",
     "U+11CAF", "U+11CB0", "U+11CB2", "U+11CB3", "U+11CB5", "U+11CB6", "U+11D31", "U+11D32",
     "U+11D33", "U+11D34", "U+11D35", "U+11D36", "U+11D3A", "U+11D3C", "U+11D3D", "U+11D3F",
     "U+11D40", "U+11D41", "U+11D42", "U+11D43", "U+11D44", "U+11D45", "U+11D47", "U+11D90",
     "U+11D91", "U+11D95", "U+11D97", "U+11EF3", "U+11EF4", "U+13430", "U+13431", "U+13432",
     "U+13433", "U+13434", "U+13435", "U+13436", "U+13437", "U+13438", "U+16AF0", "U+16AF1",
     "U+16AF2", "U+16AF3", "U+16AF4", "U+16B30", "U+16B31", "U+16B32", "U+16B33", "U+16B34",
     "U+16B35", "U+16B36", "U+16B40", "U+16B41", "U+16B42", "U+16B43", "U+16F4F", "U+16F8F",
     "U+16F90", "U+16F91", "U+16F92", "U+16F93", "U+16F94", "U+16F95", "U+16F96", "U+16F97",
     "U+16F98", "U+16F99", "U+16F9A", "U+16F9B", "U+16F9C", "U+16F9D", "U+16F9E", "U+16F9F",
     "U+16FE0", "U+16FE1", "U+16FE3", "U+16FE4", "U+1AFF0", "U+1AFF1", "U+1AFF2", "U+1AFF3",
     "U+1AFF5", "U+1AFF6", "U+1AFF7", "U+1AFF8", "U+1AFF9", "U+1AFFA", "U+1AFFB", "U+1AFFD",
     "U+1AFFE", "U+1BC9D", "U+1BC9E", "U+1BCA0", "U+1BCA1", "U+1BCA2", "U+1BCA3", "U+1CF00",
     "U+1CF01", "U+1CF02", "U+1CF03", "U+1CF04", "U+1CF05", "U+1CF06", "U+1CF07", "U+1CF08",
     "U+1CF09", "U+1CF0A", "U+1CF0B", "U+1CF0C", "U+1CF0D", "U+1CF0E", "U+1CF0F", "U+1CF10",
     "U+1CF11", "U+1CF12", "U+1CF13", "U+1CF14", "U+1CF15", "U+1CF16", "U+1CF17", "U+1CF18",
     "U+1CF19", "U+1CF1A", "U+1CF1B", "U+1CF1C", "U+1CF1D", "U+1CF1E", "U+1CF1F", "U+1CF20",
     "U+1CF21", "U+1CF22", "U+1CF23", "U+1CF24", "U+1CF25", "U+1CF26", "U+1CF27", "U+1CF28",
     "U+1CF29", "U+1CF2A", "U+1CF2B", "U+1CF2C", "U+1CF2D", "U+1CF30", "U+1CF31", "U+1CF32",
     "U+1CF33", "U+1CF34", "U+1CF35", "U+1CF36", "U+1CF37", "U+1CF38", "U+1CF39", "U+1CF3A",
     "U+1CF3B", "U+1CF3C", "U+1CF3D", "U+1CF3E", "U+1CF3F", "U+1CF40", "U+1CF41", "U+1CF42",
     "U+1CF43", "U+1CF44", "U+1CF45", "U+1CF46", "U+1D167", "U+1D168", "U+1D169", "U+1D173",
     "U+1D174", "U+1D175", "U+1D176", "U+1D177", "U+1D178", "U+1D179", "U+1D17A", "U+1D17B",
     "U+1D17C", "U+1D17D", "U+1D17E", "U+1D17F", "U+1D180", "U+1D181", "U+1D182", "U+1D185",
     "U+1D186", "U+1D187", "U+1D188", "U+1D189", "U+1D18A", "U+1D18B", "U+1D1AA", "U+1D1AB",
     "U+1D1AC", "U+1D1AD", "U+1D242", "U+1D243", "U+1D244", "U+1DA00", "U+1DA01", "U+1DA02",
     "U+1DA03", "U+1DA04", "U+1DA05", "U+1DA06", "U+1DA07", "U+1DA08", "U+1DA09", "U+1DA0A",
     "U+1DA0B", "U+1DA0C", "U+1DA0D", "U+1DA0E", "U+1DA0F", "U+1DA10", "U+1DA11", "U+1DA12",
     "U+1DA13", "U+1DA14", "U+1DA15", "U+1DA16", "U+1DA17", "U+1DA18", "U+1DA19", "U+1DA1A",
     "U+1DA1B", "U+1DA1C", "U+1DA1D", "U+1DA1E", "U+1DA1F", "U+1DA20", "U+1DA21", "U+1DA22",
     "U+1DA23", "U+1DA24", "U+1DA25", "U+1DA26", "U+1DA27", "U+1DA28", "U+1DA29", "U+1DA2A",
     "U+1DA2B", "U+1DA2C", "U+1DA2D", "U+1DA2E", "U+1DA2F", "U+1DA30", "U+1DA31", "U+1DA32",
     "U+1DA33", "U+1DA34", "U+1DA35", "U+1DA36", "U+1DA3B", "U+1DA3C", "U+1DA3D", "U+1DA3E",
     "U+1DA3F", "U+1DA40", "U+1DA41", "U+1DA42", "U+1DA43", "U+1DA44", "U+1DA45", "U+1DA46",
     "U+1DA47", "U+1DA48", "U+1DA49", "U+1DA4A", "U+1DA4B", "U+1DA4C", "U+1DA4D", "U+1DA4E",
     "U+1DA4F", "U+1DA50", "U+1DA51", "U+1DA52", "U+1DA53", "U+1DA54", "U+1DA55", "U+1DA56",
     "U+1DA57", "U+1DA58", "U+1DA59", "U+1DA5A", "U+1DA5B", "U+1DA5C", "U+1DA5D", "U+1DA5E",
     "U+1DA5F", "U+1DA60", "U+1DA61", "U+1DA62", "U+1DA63", "U+1DA64", "U+1DA65", "U+1DA66",
     "U+1DA67", "U+1DA68", "U+1DA69", "U+1DA6A", "U+1DA6B", "U+1DA6C", "U+1DA75", "U+1DA84",
     "U+1DA9B", "U+1DA9C", "U+1DA9D", "U+1DA9E", "U+1DA9F", "U+1DAA1", "U+1DAA2", "U+1DAA3",
     "U+1DAA4", "U+1DAA5", "U+1DAA6", "U+1DAA7", "U+1DAA8", "U+1DAA9", "U+1DAAA", "U+1DAAB",
     "U+1DAAC", "U+1DAAD", "U+1DAAE", "U+1DAAF", "U+1E000", "U+1E001", "U+1E002", "U+1E003",
     "U+1E004", "U+1E005", "U+1E006", "U+1E008", "U+1E009", "U+1E00A", "U+1E00B", "U+1E00C",
     "U+1E00D", "U+1E00E", "U+1E00F", "U+1E010", "U+1E011", "U+1E012", "U+1E013", "U+1E014",
     "U+1E015", "U+1E016", "U+1E017", "U+1E018", "U+1E01B", "U+1E01C", "U+1E01D", "U+1E01E",
     "U+1E01F", "U+1E020", "U+1E021", "U+1E023", "U+1E024", "U+1E026", "U+1E027", "U+1E028",
     "U+1E029", "U+1E02A", "U+1E130", "U+1E131", "U+1E132", "U+1E133", "U+1E134", "U+1E135",
     "U+1E136", "U+1E137", "U+1E138", "U+1E139", "U+1E13A", "U+1E13B", "U+1E13C", "U+1E13D",
     "U+1E2AE", "U+1E2EC", "U+1E2ED", "U+1E2EE", "U+1E2EF", "U+1E8D0", "U+1E8D1", "U+1E8D2",
     "U+1E8D3", "U+1E8D4", "U+1E8D5", "U+1E8D6", "U+1E944", "U+1E945", "U+1E946", "U+1E947",
     "U+1E948", "U+1E949", "U+1E94A", "U+1E94B", "U+1F3FB", "U+1F3FC", "U+1F3FD", "U+1F3FE",
     "U+1F3FF", "U+E0001", "U+E0020", "U+E0021", "U+E0022", "U+E0023", "U+E0024", "U+E0025",
     "U+E0026", "U+E0027", "U+E0028", "U+E0029", "U+E002A", "U+E002B", "U+E002C", "U+E002D",
     "U+E002E", "U+E002F", "U+E0030", "U+E0031", "U+E0032", "U+E0033", "U+E0034", "U+E0035",
     "U+E0036", "U+E0037", "U+E0038", "U+E0039", "U+E003A", "U+E003B", "U+E003C", "U+E003D",
     "U+E003E", "U+E003F", "U+E0040", "U+E0041", "U+E0042", "U+E0043", "U+E0044", "U+E0045",
     "U+E0046", "U+E0047", "U+E0048", "U+E0049", "U+E004A", "U+E004B", "U+E004C", "U+E004D",
     "U+E004E", "U+E004F", "U+E0050", "U+E0051", "U+E0052", "U+E0053", "U+E0054", "U+E0055",
     "U+E0056", "U+E0057", "U+E0058", "U+E0059", "U+E005A", "U+E005B", "U+E005C", "U+E005D",
     "U+E005E", "U+E005F", "U+E0060", "U+E0061", "U+E0062", "U+E0063", "U+E0064", "U+E0065",
     "U+E0066", "U+E0067", "U+E0068", "U+E0069", "U+E006A", "U+E006B", "U+E006C", "U+E006D",
     "U+E006E", "U+E006F", "U+E0070", "U+E0071", "U+E0072", "U+E0073", "U+E0074", "U+E0075",
     "U+E0076", "U+E0077", "U+E0078", "U+E0079", "U+E007A", "U+E007B", "U+E007C", "U+E007D",
     "U+E007E", "U+E007F", "U+E0100", "U+E0101", "U+E0102", "U+E0103", "U+E0104", "U+E0105",
     "U+E0106", "U+E0107", "U+E0108", "U+E0109", "U+E010A", "U+E010B", "U+E010C", "U+E010D",
     "U+E010E", "U+E010F", "U+E0110", "U+E0111", "U+E0112", "U+E0113", "U+E0114", "U+E0115",
     "U+E0116", "U+E0117", "U+E0118", "U+E0119", "U+E011A", "U+E011B", "U+E011C", "U+E011D",
     "U+E011E", "U+E011F", "U+E0120", "U+E0121", "U+E0122", "U+E0123", "U+E0124", "U+E0125",
     "U+E0126", "U+E0127", "U+E0128", "U+E0129", "U+E012A", "U+E012B", "U+E012C", "U+E012D",
     "U+E012E", "U+E012F", "U+E0130", "U+E0131", "U+E0132", "U+E0133", "U+E0134", "U+E0135",
     "U+E0136", "U+E0137", "U+E0138", "U+E0139", "U+E013A", "U+E013B", "U+E013C", "U+E013D",
     "U+E013E", "U+E013F", "U+E0140", "U+E0141", "U+E0142", "U+E0143", "U+E0144", "U+E0145",
     "U+E0146", "U+E0147", "U+E0148", "U+E0149", "U+E014A", "U+E014B", "U+E014C", "U+E014D",
     "U+E014E", "U+E014F", "U+E0150", "U+E0151", "U+E0152", "U+E0153", "U+E0154", "U+E0155",
     "U+E0156", "U+E0157", "U+E0158", "U+E0159", "U+E015A", "U+E015B", "U+E015C", "U+E015D",
     "U+E015E", "U+E015F", "U+E0160", "U+E0161", "U+E0162", "U+E0163", "U+E0164", "U+E0165",
     "U+E0166", "U+E0167", "U+E0168", "U+E0169", "U+E016A", "U+E016B", "U+E016C", "U+E016D",
     "U+E016E", "U+E016F", "U+E0170", "U+E0171", "U+E0172", "U+E0173", "U+E0174", "U+E0175",
     "U+E0176", "U+E0177", "U+E0178", "U+E0179", "U+E017A", "U+E017B", "U+E017C", "U+E017D",
     "U+E017E", "U+E017F", "U+E0180", "U+E0181", "U+E0182", "U+E0183", "U+E0184", "U+E0185",
     "U+E0186", "U+E0187", "U+E0188", "U+E0189", "U+E018A", "U+E018B", "U+E018C", "U+E018D",
     "U+E018E", "U+E018F", "U+E0190", "U+E0191", "U+E0192", "U+E0193", "U+E0194", "U+E0195",
     "U+E0196", "U+E0197", "U+E0198", "U+E0199", "U+E019A", "U+E019B", "U+E019C", "U+E019D",
     "U+E019E", "U+E019F", "U+E01A0", "U+E01A1", "U+E01A2", "U+E01A3", "U+E01A4", "U+E01A5",
     "U+E01A6", "U+E01A7", "U+E01A8", "U+E01A9", "U+E01AA", "U+E01AB", "U+E01AC", "U+E01AD",
     "U+E01AE", "U+E01AF", "U+E01B0", "U+E01B1", "U+E01B2", "U+E01B3", "U+E01B4", "U+E01B5",
     "U+E01B6", "U+E01B7", "U+E01B8", "U+E01B9", "U+E01BA", "U+E01BB", "U+E01BC", "U+E01BD",
     "U+E01BE", "U+E01BF", "U+E01C0", "U+E01C1", "U+E01C2", "U+E01C3", "U+E01C4", "U+E01C5",
     "U+E01C6", "U+E01C7", "U+E01C8", "U+E01C9", "U+E01CA", "U+E01CB", "U+E01CC", "U+E01CD",
     "U+E01CE", "U+E01CF", "U+E01D0", "U+E01D1", "U+E01D2", "U+E01D3", "U+E01D4", "U+E01D5",
     "U+E01D6", "U+E01D7", "U+E01D8", "U+E01D9", "U+E01DA", "U+E01DB", "U+E01DC", "U+E01DD",
     "U+E01DE", "U+E01DF", "U+E01E0", "U+E01E1", "U+E01E2", "U+E01E3", "U+E01E4", "U+E01E5",
     "U+E01E6", "U+E01E7", "U+E01E8", "U+E01E9", "U+E01EA", "U+E01EB", "U+E01EC", "U+E01ED",
     "U+E01EE", "U+E01EF"}

\* str.lower() of a character that lowers to one character
LowerChar(c) ==
    IF c \in UpperCharSet
    THEN LowerChars[CHOOSE i \in 1..Len(UpperChars) : UpperChars[i] = c]
    ELSE c

CapitalSigma == "Σ"
SmallSigma == "σ"
FinalSmallSigma == "ς"
DottedCapitalI == "U+0130"
CombiningDotAbove == "U+0307"

\* the capital sigma at s[i] ends a word: the nearest character before it that
\* is not case-ignorable is cased, and the nearest one after it is not
FinalSigma(s, i) ==
    /\ \E j \in 1..(i - 1) :
          /\ s[j] \in CasedChars
          /\ \A k \in (j + 1)..(i - 1) : s[k] \in CaseIgnorable
    /\ ~\E j \in (i + 1)..Len(s) :
          /\ s[j] \in CasedChars
          /\ \A k \in (i + 1)..(j - 1) : s[k] \in CaseIgnorable

\* what s[i] becomes in s.lower()
LowerAt(s, i) ==
    IF s[i] = CapitalSigma
    THEN <<IF FinalSigma(s, i) THEN FinalSmallSigma ELSE SmallSigma>>
    ELSE IF s[i] = DottedCapitalI
         THEN <<"i", CombiningDotAbove>>
         ELSE <<LowerChar(s[i])>>

RECURSIVE LowerFrom(_, _)
LowerFrom(s, i) == IF i > Len(s) THEN <<>> ELSE LowerAt(s, i) \o LowerFrom(s, i + 1)

\* str.lower()
Lower(s) ==
    IF \E i \in 1..Len(s) : s[i] = DottedCapitalI
    THEN LowerFrom(s, 1)
    ELSE [i \in 1..Len(s) |-> LowerAt(s, i)[1]]

\* the whitespace of str.strip() and of \s
IsSpace(c) == c \in Whitespace

\* str.lstrip()
LStrip(s) ==
    IF \A i \in 1..Len(s) : IsSpace(s[i])
    THEN <<>>
    ELSE SubSeq(s, CHOOSE i \in 1..Len(s) :
                       ~IsSpace(s[i]) /\ \A j \in 1..(i - 1) : IsSpace(s[j]), Len(s))

\* str.rstrip()
RStrip(s) ==
    IF \A i \in 1..Len(s) : IsSpace(s[i])
    THEN <<>>
    ELSE SubSeq(s, 1, CHOOSE i \in 1..Len(s) :
                          ~IsSpace(s[i]) /\ \A j \in (i + 1)..Len(s) : IsSpace(s[j]))

\* str.strip()
Strip(s) == LStrip(RStrip(s))

\* p occurs in s at position i
OccursAt(s, p, i) == i >= 1 /\ i + Len(p) - 1 <= Len(s) /\ SubSeq(s, i, i + Len(p) - 1) = p

\* str.find(p, from), 1-based; 0 when p does not occur
Find(s, p, from) ==
    IF \E i \in from..Len(s) : OccursAt(s, p, i)
    THEN CHOOSE i \in from..Len(s) :
             OccursAt(s, p, i) /\ \A j \in from..(i - 1) : ~OccursAt(s, p, j)
    ELSE 0

\* `p in s` for strings
Contains(s, p) == Len(p) = 0 \/ Find(s, p, 1) # 0

\* str.split(sep): the pieces between the non-overlapping occurrences of sep,
\* found left to right
RECURSIVE Split(_, _)
Split(s, sep) ==
    LET i == Find(s, sep, 1)
    IN IF i = 0
       THEN <<s>>
       ELSE <<SubSeq(s, 1, i - 1)>> \o Split(SubSeq(s, i + Len(sep), Len(s)), sep)

----------------------------------------------------------------------------
(* Values *)

\* a Python value of type str | bool
PyStr(s) == [t |-> "str", s |-> s, b |-> FALSE]
PyBool(b) == [t |-> "bool", s |-> <<>>, b |-> b]

\* str(v) of a str | bool value
StrOf(v) == IF v.t = "str" THEN v.s ELSE IF v.b THEN S_True ELSE S_False

\* dict[str, Any], in insertion order: a sequence of [key, value] with distinct keys
DictHas(d, k) == \E i \in 1..Len(d) : d[i].key = k
DictGet(d, k) == d[CHOOSE i \in 1..Len(d) : d[i].key = k].value
\* a map that puts a new key first
DictSetFirst(d, k, v) ==
    IF DictHas(d, k)
    THEN [i \in 1..Len(d) |-> IF d[i].key = k THEN [key |-> k, value |-> v] ELSE d[i]]
    ELSE <<[key |-> k, value |-> v]>> \o d

\* d[k] = v: a key already present keeps its position
DictSet(d, k, v) ==
    IF DictHas(d, k)
    THEN [i \in 1..Len(d) |-> IF d[i].key = k THEN [key |-> k, value |-> v] ELSE d[i]]
    ELSE Append(d, [key |-> k, value |-> v])

----------------------------------------------------------------------------
(* LLMService._evaluate_condition *)

\* re.match(r"\{([^}]+)\}\s*=\s*(.+)", c): [ok, key (group 1), value (group 2)]
NoMatch == [ok |-> FALSE, key |-> <<>>, value |-> <<>>]
ClauseMatch(c) ==
    IF Len(c) = 0 \/ c[1] # "{"
    THEN NoMatch
    ELSE LET close == Find(c, <<"}">>, 2)
         IN IF close < 3
            THEN NoMatch
            ELSE LET after == LStrip(SubSeq(c, close + 1, Len(c)))
                 IN IF Len(after) = 0 \/ after[1] # "="
                    THEN NoMatch
                    ELSE LET \* \s* takes the whitespace after "=" and (.+) the
                             \* rest of that line ("." is not "\n"); when only
                             \* whitespace follows "=", \s* gives back as much
                             \* as (.+) needs: the last character that is not "\n"
                             rest == SubSeq(after, 2, Len(after))
                             g2 == LStrip(rest)
                             eol == Find(g2, <<"\n">>, 1)
                             given_back == {i \in 1..Len(rest) : rest[i] # "\n"}
                             value ==
                                 IF Len(g2) > 0
                                 THEN (IF eol = 0 THEN g2 ELSE SubSeq(g2, 1, eol - 1))
                                 ELSE IF given_back = {}
                                      THEN <<>>
                                      ELSE <<rest[CHOOSE i \in given_back :
                                                     \A j \in given_back : j <= i]>>
                         IN IF Len(value) = 0
                            THEN NoMatch
                            ELSE [ok |-> TRUE,
                                  key |-> SubSeq(c, 2, close - 1),
                                  value |-> value]

\* the clause test without .lower() on the accumulated value
evaluate_single_exact(condition, answers) ==
    LET m == ClauseMatch(Strip(condition))
    IN IF m.ok
       THEN IF ~DictHas(answers, m.key)
            THEN FALSE
            ELSE StrOf(DictGet(answers, m.key)) = Lower(Strip(m.value))
       ELSE TRUE

\* a clause test that fails what the pattern does not match
evaluate_single_strict(condition, answers) ==
    LET m == ClauseMatch(Strip(condition))
    IN IF m.ok
       THEN IF ~DictHas(answers, m.key)
            THEN FALSE
            ELSE Lower(StrOf(DictGet(answers, m.key))) = Lower(Strip(m.value))
       ELSE FALSE

\* one clause: the code below the "and" branch (lines 619-635)
evaluate_single(condition, answers) ==
    LET m == ClauseMatch(Strip(condition))
    IN IF m.ok
       THEN IF ~DictHas(answers, m.key)
            THEN FALSE
            ELSE Lower(StrOf(DictGet(answers, m.key))) = Lower(Strip(m.value))
       ELSE TRUE

\* the pieces of a split hold no " and ", so the recursive call on a piece
\* takes the single-clause branch or the empty-condition branch
evaluate_part(part, answers) ==
    IF Len(part) = 0 THEN TRUE ELSE evaluate_single(part, answers)

evaluate_condition(condition, answers) ==
    IF Len(condition) = 0
    THEN TRUE
    ELSE IF Contains(condition, S_and)
         THEN LET parts == Split(condition, S_and)
              IN \A i \in 1..Len(parts) : evaluate_part(Strip(parts[i]), answers)
         ELSE evaluate_single(condition, answers)

----------------------------------------------------------------------------
(* Numbers as text *)

Digits == <<"0", "1", "2", "3", "4", "5", "6", "7", "8", "9">>

\* the decimal digits of Unicode other than "0".."9", by the digit they stand for
Decimal0 ==
    {"U+0660", "۰", "߀", "U+0966", "০", "U+0A66", "૦", "U+0B66", "௦", "U+0C66", "೦", "U+0D66",
     "෦", "U+0E50", "໐", "U+0F20", "U+1040", "႐", "០", "U+1810", "U+1946", "᧐", "᪀", "᪐",
     "U+1B50", "᮰", "U+1C40", "U+1C50", "U+A620", "꣐", "U+A900", "꧐", "꧰", "U+AA50", "꯰",
     "U+FF10", "U+104A0", "U+10D30", "U+11066", "U+110F0", "U+11136", "U+111D0", "U+112F0",
     "U+11450", "U+114D0", "U+11650", "U+116C0", "U+11730", "U+118E0", "U+11950", "U+11C50",
     "U+11D50", "U+11DA0", "U+16A60", "U+16AC0", "U+16B50", "U+1D7CE", "U+1D7D8", "U+1D7E2",
     "U+1D7EC", "U+1D7F6", "U+1E140", "U+1E2F0", "U+1E950", "U+1FBF0"}

Decimal1 ==
    {"U+0661", "۱", "߁", "U+0967", "১", "U+0A67", "૧", "U+0B67", "௧", "U+0C67", "೧", "U+0D67",
     "෧", "U+0E51", "໑", "U+0F21", "U+1041", "႑", "១", "U+1811", "U+1947", "᧑", "᪁", "᪑",
     "U+1B51", "᮱", "U+1C41", "U+1C51", "U+A621", "꣑", "U+A901", "꧑", "꧱", "U+AA51", "꯱",
     "U+FF11", "U+104A1", "U+10D31", "U+11067", "U+110F1", "U+11137", "U+111D1", "U+112F1",
     "U+11451", "U+114D1", "U+11651", "U+116C1", "U+11731", "U+118E1", "U+11951", "U+11C51",
     "U+11D51", "U+11DA1", "U+16A61", "U+16AC1", "U+16B51", "U+1D7CF", "U+1D7D9", "U+1D7E3",
     "U+1D7ED", "U+1D7F7", "U+1E141", "U+1E2F1", "U+1E951", "U+1FBF1"}

Decimal2 ==
    {"U+0662", "۲", "߂", "U+0968", "২", "U+0A68", "૨", "U+0B68", "௨", "U+0C68", "೨", "U+0D68",
     "෨", "U+0E52", "໒", "U+0F22", "U+1042", "႒", "២", "U+1812", "U+1948", "᧒", "᪂", "᪒",
     "U+1B52", "᮲", "U+1C42", "U+1C52", "U+A622", "꣒", "U+A902", "꧒", "꧲", "U+AA52", "꯲",
     "U+FF12", "U+104A2", "U+10D32", "U+11068", "U+110F2", "U+11138", "U+111D2", "U+112F2",
     "U+11452", "U+114D2", "U+11652", "U+116C2", "U+11732", "U+118E2", "U+11952", "U+11C52",
     "U+11D52", "U+11DA2", "U+16A62", "U+16AC2", "U+16B52", "U+1D7D0", "U+1D7DA", "U+1D7E4",
     "U+1D7EE", "U+1D7F8", "U+1E142", "U+1E2F2", "U+1E952", "U+1FBF2"}

Decimal3 ==
    {"U+0663", "۳", "߃", "U+0969", "৩", "U+0A69", "૩", "U+0B69", "௩", "U+0C69", "೩", "U+0D69",
     "෩", "U+0E53", "໓", "U+0F23", "U+1043", "႓", "៣", "U+1813", "U+1949", "᧓", "᪃", "᪓",
     "U+1B53", "᮳", "U+1C43", "U+1C53", "U+A623", "꣓", "U+A903", "꧓", "꧳", "U+AA53", "꯳",
     "U+FF13", "U+104A3", "U+10D33", "U+11069", "U+110F3", "U+11139", "U+111D3", "U+112F3",
     "U+11453", "U+114D3", "U+11653", "U+116C3", "U+11733", "U+118E3", "U+11953", "U+11C53",
     "U+11D53", "U+11DA3", "U+16A63", "U+16AC3", "U+16B53", "U+1D7D1", "U+1D7DB", "U+1D7E5",
     "U+1D7EF", "U+1D7F9", "U+1E143", "U+1E2F3", "U+1E953", "U+1FBF3"}

Decimal4 ==
    {"U+0664", "۴", "߄", "U+096A", "৪", "U+0A6A", "૪", "U+0B6A", "௪", "U+0C6A", "೪", "U+0D6A",
     "෪", "U+0E54", "໔", "U+0F24", "U+1044", "႔", "៤", "U+1814", "U+194A", "᧔", "᪄", "᪔",
     "U+1B54", "᮴", "U+1C44", "U+1C54", "U+A624", "꣔", "U+A904", "꧔", "꧴", "U+AA54", "꯴",
     "U+FF14", "U+104A4", "U+10D34", "U+1106A", "U+110F4", "U+1113A", "U+111D4", "U+112F4",
     "U+11454", "U+114D4", "U+11654", "U+116C4", "U+11734", "U+118E4", "U+11954", "U+11C54",
     "U+11D54", "U+11DA4", "U+16A64", "U+16AC4", "U+16B54", "U+1D7D2", "U+1D7DC", "U+1D7E6",
     "U+1D7F0", "U+1D7FA", "U+1E144", "U+1E2F4", "U+1E954", "U+1FBF4"}

Decimal5 ==
    {"U+0665", "۵", "߅", "U+096B", "৫", "U+0A6B", "૫", "U+0B6B", "௫", "U+0C6B", "೫", "U+0D6B",
     "෫", "U+0E55", "໕", "U+0F25", "U+1045", "႕", "៥", "U+1815", "U+194B", "᧕", "᪅", "᪕",
     "U+1B55", "᮵", "U+1C45", "U+1C55", "U+A625", "꣕", "U+A905", "꧕", "꧵", "U+AA55", "꯵",
     "U+FF15", "U+104A5", "U+10D35", "U+1106B", "U+110F5", "U+1113B", "U+111D5", "U+112F5",
     "U+11455", "U+114D5", "U+11655", "U+116C5", "U+11735", "U+118E5", "U+11955", "U+11C55",
     "U+11D55", "U+11DA5", "U+16A65", "U+16AC5", "U+16B55", "U+1D7D3", "U+1D7DD", "U+1D7E7",
     "U+1D7F1", "U+1D7FB", "U+1E145", "U+1E2F5", "U+1E955", "U+1FBF5"}

Decimal6 ==
    {"U+0666", "۶", "߆", "U+096C", "৬", "U+0A6C", "૬", "U+0B6C", "௬", "U+0C6C", "೬", "U+0D6C",
     "෬", "U+0E56", "໖", "U+0F26", "U+1046", "႖", "៦", "U+1816", "U+194C", "᧖", "᪆", "᪖",
     "U+1B56", "᮶", "U+1C46", "U+1C56", "U+A626", "꣖", "U+A906", "꧖", "꧶", "U+AA56", "꯶",
     "U+FF16", "U+104A6", "U+10D36", "U+1106C", "U+110F6", "U+1113C", "U+111D6", "U+112F6",
     "U+11456", "U+114D6", "U+11656", "U+116C6", "U+11736", "U+118E6", "U+11956", "U+11C56",
     "U+11D56", "U+11DA6", "U+16A66", "U+16AC6", "U+16B56", "U+1D7D4", "U+1D7DE", "U+1D7E8",
     "U+1D7F2", "U+1D7FC", "U+1E146", "U+1E2F6", "U+1E956", "U+1FBF6"}

Decimal7 ==
    {"U+0667", "۷", "߇", "U+096D", "৭", "U+0A6D", "૭", "U+0B6D", "௭", "U+0C6D", "೭", "U+0D6D",
     "෭", "U+0E57", "໗", "U+0F27", "U+1047", "႗", "៧", "U+1817", "U+194D", "᧗", "᪇", "᪗",
     "U+1B57", "᮷", "U+1C47", "U+1C57", "U+A627", "꣗", "U+A907", "꧗", "꧷", "U+AA57", "꯷",
     "U+FF17", "U+104A7", "U+10D37", "U+1106D", "U+110F7", "U+1113D", "U+111D7", "U+112F7",
     "U+11457", "U+114D7", "U+11657", "U+116C7", "U+11737", "U+118E7", "U+11957", "U+11C57",
     "U+11D57", "U+11DA7", "U+16A67", "U+16AC7", "U+16B57", "U+1D7D5", "U+1D7DF", "U+1D7E9",
     "U+1D7F3", "U+1D7FD", "U+1E147", "U+1E2F7", "U+1E957", "U+1FBF7"}

Decimal8 ==
    {"U+0668", "۸", "߈", "U+096E", "৮", "U+0A6E", "૮", "U+0B6E", "௮", "U+0C6E", "೮", "U+0D6E",
     "෮", "U+0E58", "໘", "U+0F28", "U+1048", "႘", "៨", "U+1818", "U+194E", "᧘", "᪈", "᪘",
     "U+1B58", "᮸", "U+1C48", "U+1C58", "U+A628", "꣘", "U+A908", "꧘", "꧸", "U+AA58", "꯸",
     "U+FF18", "U+104A8", "U+10D38", "U+1106E", "U+110F8", "U+1113E", "U+111D8", "U+112F8",
     "U+11458", "U+114D8", "U+11658", "U+116C8", "U+11738", "U+118E8", "U+11958", "U+11C58",
     "U+11D58", "U+11DA8", "U+16A68", "U+16AC8", "U+16B58", "U+1D7D6", "U+1D7E0", "U+1D7EA",
     "U+1D7F4", "U+1D7FE", "U+1E148", "U+1E2F8", "U+1E958", "U+1FBF8"}

Decimal9 ==
    {"U+0669", "۹", "߉", "U+096F", "৯", "U+0A6F", "૯", "U+0B6F", "௯", "U+0C6F", "೯", "U+0D6F",
     "෯", "U+0E59", "໙", "U+0F29", "U+1049", "႙", "៩", "U+1819", "U+194F", "᧙", "᪉", "᪙",
     "U+1B59", "᮹", "U+1C49", "U+1C59", "U+A629", "꣙", "U+A909", "꧙", "꧹", "U+AA59", "꯹",
     "U+FF19", "U+104A9", "U+10D39", "U+1106F", "U+110F9", "U+1113F", "U+111D9", "U+112F9",
     "U+11459", "U+114D9", "U+11659", "U+116C9", "U+11739", "U+118E9", "U+11959", "U+11C59",
     "U+11D59", "U+11DA9", "U+16A69", "U+16AC9", "U+16B59", "U+1D7D7", "U+1D7E1", "U+1D7EB",
     "U+1D7F5", "U+1D7FF", "U+1E149", "U+1E2F9", "U+1E959", "U+1FBF9"}

DecimalDigits ==
    <<Decimal0, Decimal1, Decimal2, Decimal3, Decimal4, Decimal5, Decimal6, Decimal7,
      Decimal8, Decimal9>>

\* one of "0".."9"
IsAsciiDigit(c) == \E i \in 1..10 : Digits[i] = c

\* a decimal digit of Unicode: what \d matches and what int() and float() read
IsDigit(c) == IsAsciiDigit(c) \/ \E d \in 1..10 : c \in DecimalDigits[d]

\* int(c) of a decimal digit
DigitVal(c) ==
    IF IsAsciiDigit(c)
    THEN (CHOOSE i \in 1..10 : Digits[i] = c) - 1
    ELSE (CHOOSE d \in 1..10 : c \in DecimalDigits[d]) - 1

\* str(n) of a non-negative int
RECURSIVE NatStr(_)
NatStr(n) == IF n < 10 THEN <<Digits[n + 1]>> ELSE NatStr(n \div 10) \o <<Digits[(n % 10) + 1]>>

\* str(n) of an int
IntStr(n) == IF n < 0 THEN <<"-">> \o NatStr(0 - n) ELSE NatStr(n)

\* int(s) of a text of decimal digits
RECURSIVE DigitsVal(_)
DigitsVal(s) ==
    IF Len(s) = 0 THEN 0 ELSE 10 * DigitsVal(SubSeq(s, 1, Len(s) - 1)) + DigitVal(s[Len(s)])

----------------------------------------------------------------------------
(* What json.loads gives for one field of a backend response *)

JStr(s) == [k |-> "str", s |-> s, b |-> FALSE, n |-> 0]
JBool(b) == [k |-> "bool", s |-> <<>>, b |-> b, n |-> 0]
JNum(n) == [k |-> "num", s |-> <<>>, b |-> FALSE, n |-> n]     \* an int
JNull == [k |-> "null", s |-> <<>>, b |-> FALSE, n |-> 0]
JList(n) == [k |-> "list", s |-> <<>>, b |-> FALSE, n |-> n]   \* [1, ..., 1], n items
JObj(n) == [k |-> "obj", s |-> <<>>, b |-> FALSE, n |-> n]     \* {} or {'a': 1}

\* a Python value that is no str and no bool, as it came out of json.loads:
\* t is its kind, and an int has its digits in s
PyInt(n) == [t |-> "num", s |-> IntStr(n), b |-> FALSE]
PyOther(x) == IF x.k = "num" THEN PyInt(x.n) ELSE [t |-> x.k, s |-> x.s, b |-> x.b]

\* ", ".join of n times "1"
RECURSIVE OnesJoined(_)
OnesJoined(n) ==
    IF n = 0 THEN <<>>
    ELSE IF n = 1 THEN <<"1">>
    ELSE OnesJoined(n - 1) \o <<",", " ", "1">>

\* str(x)
JsonStr(x) ==
    CASE x.k = "str" -> x.s
      [] x.k = "bool" -> (IF x.b THEN S_True ELSE S_False)
      [] x.k = "num" -> IntStr(x.n)
      [] x.k = "null" -> S_None
      [] x.k = "list" -> <<"[">> \o OnesJoined(x.n) \o <<"]">>
      [] x.k = "obj" -> (IF x.n = 0 THEN <<"{", "}">>
                         ELSE <<"{", "'", "a", "'", ":", " ", "1", "}">>)

\* bool(x)
JsonTruth(x) ==
    CASE x.k = "str" -> Len(x.s) > 0
      [] x.k = "bool" -> x.b
      [] x.k = "num" -> x.n # 0
      [] x.k = "null" -> FALSE
      [] x.k = "list" -> x.n > 0
      [] x.k = "obj" -> x.n > 0

\* answer.lower() in ("true", "yes", "1")
TruthyWords == {S_true, S_yes, <<"1">>}

\* the coercion with the string case of a boolean question left as it came
coerce_answer_keeps_str(question, answer) ==
    IF question.type = "text"
    THEN PyStr(JsonStr(answer))
    ELSE IF answer.k = "str"
         THEN PyStr(answer.s)
         ELSE PyBool(JsonTruth(answer))

\* "Ensure answer type matches question type" (the Actor's lines 296-306)
coerce_answer(question, answer) ==
    IF question.type = "text"
    THEN PyStr(JsonStr(answer))
    ELSE IF question.type = "boolean"
         THEN IF answer.k = "str"
              THEN PyBool(Lower(answer.s) \in TruthyWords)
              ELSE PyBool(JsonTruth(answer))
         ELSE PyOther(answer)

\* the same block as written again in the Refiner (lines 519-529)
coerce_refined(question, answer) ==
    IF question.type = "text"
    THEN PyStr(JsonStr(answer))
    ELSE IF question.type = "boolean"
         THEN IF answer.k = "str"
              THEN PyBool(Lower(answer.s) \in TruthyWords)
              ELSE PyBool(JsonTruth(answer))
         ELSE PyOther(answer)

\* AnswerWithConfidence.value: str | bool. A str or a bool is taken as it is;
\* the int 1 or 0 is taken as the bool True or False; any other value is a
\* ValidationError
ValueAccepted(v) == v.t \in {"str", "bool"} \/ v \in {PyInt(0), PyInt(1)}

\* the value as the answer holds it
ValueStored(v) == IF v.t = "num" THEN PyBool(v = PyInt(1)) ELSE v

----------------------------------------------------------------------------
(* LLMService._calculate_age, _extract_patient_context *)

AllDigits(s) == Len(s) > 0 /\ \A i \in 1..Len(s) : IsDigit(s[i])

\* the day field of %d, which may carry one leading blank
DayText(s) == IF Len(s) = 2 /\ s[1] = " " THEN <<s[2]>> ELSE s

\* the fields strptime(s, "%Y-%m-%d") reads
ParseDate(s) ==
    LET parts == Split(s, <<"-">>)
    IN [year |-> DigitsVal(parts[1]),
        month |-> DigitsVal(parts[2]),
        day |-> DigitsVal(DayText(parts[3]))]

DaysInMonth(y, m) ==
    IF m = 2 THEN (IF (y % 4 = 0 /\ y % 100 # 0) \/ y % 400 = 0 THEN 29 ELSE 28)
    ELSE IF m \in {4, 6, 9, 11} THEN 30 ELSE 31

\* [1-9]
NonZeroDigits == {"1", "2", "3", "4", "5", "6", "7", "8", "9"}

\* %Y: \d\d\d\d
MatchesYear(t) == Len(t) = 4 /\ AllDigits(t)

\* %m: 1[0-2]|0[1-9]|[1-9]
MatchesMonth(t) ==
    \/ Len(t) = 2 /\ t[1] = "1" /\ t[2] \in {"0", "1", "2"}
    \/ Len(t) = 2 /\ t[1] = "0" /\ t[2] \in NonZeroDigits
    \/ Len(t) = 1 /\ t[1] \in NonZeroDigits

\* %d: 3[0-1]|[1-2]\d|0[1-9]|[1-9]| [1-9]
MatchesDay(t) ==
    \/ Len(t) = 2 /\ t[1] = "3" /\ t[2] \in {"0", "1"}
    \/ Len(t) = 2 /\ t[1] \in {"1", "2"} /\ IsDigit(t[2])
    \/ Len(t) = 2 /\ t[1] = "0" /\ t[2] \in NonZeroDigits
    \/ Len(t) = 1 /\ t[1] \in NonZeroDigits
    \/ Len(t) = 2 /\ t[1] = " " /\ t[2] \in NonZeroDigits

\* strptime(s, "%Y-%m-%d") returns a datetime instead of raising ValueError:
\* the whole of s matches the pattern of the format, and the fields are a date
StrptimeAccepts(s) ==
    LET parts == Split(s, <<"-">>)
    IN /\ Len(parts) = 3
       /\ MatchesYear(parts[1])
       /\ MatchesMonth(parts[2])
       /\ MatchesDay(parts[3])
       /\ ParseDate(s).year >= 1
       /\ ParseDate(s).day <= DaysInMonth(ParseDate(s).year, ParseDate(s).month)

\* a comparison of the months alone
BeforeBirthMonth(now, dob) == now.month < dob.month

\* (today.month, today.day) < (dob.month, dob.day)
BeforeBirthday(now, dob) ==
    now.month < dob.month \/ (now.month = dob.month /\ now.day < dob.day)

calculate_age(date_of_birth, now) ==
    LET dob == ParseDate(date_of_birth)
    IN now.year - dob.year - (IF BeforeBirthday(now, dob) THEN 1 ELSE 0)

\* the numbered visit notes, each on a line of its own
RECURSIVE NoteLines(_, _)
NoteLines(notes, i) ==
    IF i > Len(notes) THEN <<>>
    ELSE <<"\n">> \o NatStr(i) \o <<".", " ">> \o notes[i] \o NoteLines(notes, i + 1)

extract_patient_context(p, now) ==
    <<"Patient Information:", "\n", "- Name: ">> \o p.first_name \o <<" ">> \o p.last_name
    \o <<"\n", "- Age: ">> \o IntStr(calculate_age(p.date_of_birth, now)) \o <<" years">>
    \o <<"\n", "- Gender: ">> \o p.gender
    \o <<"\n", "- Date of Birth: ">> \o p.date_of_birth
    \o <<"\n", "\nCurrent Prescription:">>
    \o <<"\n", "- Medication: ">> \o p.prescription.medication
    \o <<"\n", "- Dosage: ">> \o p.prescription.dosage
    \o <<"\n", "- Frequency: ">> \o p.prescription.frequency
    \o <<"\n", "- Duration: ">> \o p.prescription.duration
    \o <<"\n", "\nVisit Notes:">>
    \o NoteLines(p.visit_notes, 1)

\* the "- key: value" lines of the previously answered questions
RECURSIVE PreviousLines(_, _)
PreviousLines(d, i) ==
    IF i > Len(d) THEN <<>>
    ELSE <<"\n", "- ">> \o d[i].key \o <<":", " ">> \o StrOf(d[i].value)
         \o PreviousLines(d, i + 1)

\* patient_context as generate_answer_with_confidence builds it (lines 541-548)
build_context(p, prev, now) ==
    IF Len(prev) > 0
    THEN extract_patient_context(p, now)
         \o <<"\n", "\n### Previously Answered Questions:">> \o PreviousLines(prev, 1)
    ELSE extract_patient_context(p, now)

----------------------------------------------------------------------------
(* LLMService._simulate_answer *)

S_not_available ==
    <<"I", "n", "f", "o", "r", "m", "a", "t", "i", "o", "n", " ", "n", "o", "t">>
    \o <<" ", "a", "v", "a", "i", "l", "a", "b", "l", "e">>

simulate_answer(patient_context, question) ==
    IF question.type = "boolean"
    THEN IF Contains(Lower(question.key), S_bmi)
            /\ (Contains(patient_context, <<"3", "2">>)
                \/ Contains(patient_context, <<"3", "5">>))
         THEN [value |-> PyBool(TRUE),
               reasoning |-> <<"Patient BMI exceeds threshold based on available data">>]
         ELSE [value |-> PyBool(FALSE),
               reasoning |-> <<"Unable to determine from available information">>]
    ELSE IF question.key = S_age
         THEN [value |-> PyStr(<<"4", "5">>),
               reasoning |-> <<"Age estimated from available patient data">>]
         ELSE IF question.key = S_bmi
              THEN [value |-> PyStr(<<"3", "2", ".", "5">>),
                    reasoning |-> <<"BMI value extracted from patient records">>]
              ELSE [value |-> PyStr(S_not_available),
                    reasoning |-> <<"Cannot determine from current data">>]

----------------------------------------------------------------------------
(* Inputs *)

\* most items in a Critic's improvements list
MaxImprovements == 1

Prescription1 ==
    [medication |-> <<"Z">>, dosage |-> <<"5", " ", "m", "g">>,
     frequency |-> <<"w", "e", "e", "k", "l", "y">>, duration |-> <<"n", "e", "w">>]

\* visit notes name a BMI of 32.5
Patient1 ==
    [first_name |-> <<"A">>, last_name |-> <<"B">>, date_of_birth |-> <<"1", "9", "8", "0", "-", "0", "1", "-", "0", "1">>,
     gender |-> <<"M">>, prescription |-> Prescription1,
     visit_notes |-> <<<<"B", "M", "I", " ", "3", "2", ".", "5">>>>]

\* no "32" in the record, but 35 years old on Today1
Patient2 ==
    [first_name |-> <<"C">>, last_name |-> <<"D">>, date_of_birth |-> <<"1", "9", "8", "9", "-", "0", "3", "-", "2", "0">>,
     gender |-> <<"F">>, prescription |-> Prescription1,
     visit_notes |-> <<<<"B", "M", "I", " ", "2", "8">>>>]

\* no "32" and no "35" anywhere
Patient3 ==
    [first_name |-> <<"E">>, last_name |-> <<"F">>, date_of_birth |-> <<"1", "9", "9", "0", "-", "0", "6", "-", "1", "5">>,
     gender |-> <<"F">>, prescription |-> Prescription1,
     visit_notes |-> <<<<"B", "M", "I", " ", "2", "8">>, <<"d", "i", "e", "t">>>>]

\* a patient whose date_of_birth is a calendar date written with slashes: a
\* str like the others, which strptime(..., "%Y-%m-%d") rejects
PatientSlashDate ==
    [Patient1 EXCEPT !.date_of_birth = <<"1", "9", "8", "0", "/", "0", "1", "/", "0", "1">>]

\* the patients a caller can pass
Patients == {Patient1, Patient2, Patient3, PatientSlashDate}

Today1 == [year |-> 2024, month |-> 6, day |-> 14]

\* Question (content is prompt text only and is left out)
Q(type, key, visible_if) == [type |-> type, key |-> key, visible_if |-> visible_if]

C_a_true == <<"{", "a", "}", " ", "=", " ", "t", "r", "u", "e">>
C_b_and_a == <<"{", "b", "}", " ", "=", " ", "T", "R", "U", "E", " ", "a", "n", "d", " ", "{", "a", "}", "=", "t", "r", "u", "e">>
C_x_true == <<"{", "x", "}", " ", "=", " ", "t", "r", "u", "e">>
C_free_text == <<"m", "a", "y", "b", "e">>
C_bmi30_false_and_free == <<"{", "B", "M", "I", "3", "0", "}", " ", "=", " ", "F", "a", "l", "s", "e", " ", "a", "n", "d", " ", "o", "k">>

\* a chain of conditions on earlier answers
QuestionSet1 ==
    <<Q("boolean", <<"a">>, <<>>),
      Q("boolean", <<"b">>, C_a_true),
      Q("boolean", <<"c">>, C_b_and_a)>>

\* a text answer gates a boolean question
QuestionSet2 ==
    <<Q("text", S_bmi, <<>>),
      Q("boolean", <<"B", "M", "I", "3", "0">>,
        <<"{", "b", "m", "i", "}", " ", "=", " ", "3", "2", ".", "5">>)>>

\* conditions with clauses that are not of the shape {key} = value, and a
\* condition on a key that no question has
QuestionSet3 ==
    <<Q("boolean", <<"B", "M", "I", "3", "0">>, C_free_text),
      Q("text", S_age, C_bmi30_false_and_free),
      Q("boolean", <<"z">>, C_x_true)>>

QuestionSets == {QuestionSet1, QuestionSet2, QuestionSet3}

\* the values a backend puts in "answer" / "refined_answer"
AllAnswers ==
    {JStr(<<"Y", "e", "s">>), JStr(S_false), JStr(<<"3", "2", ".", "5">>),
     JBool(TRUE), JBool(FALSE), JNum(2), JNull, JList(1)}

\* the values a backend puts in "refined_answer": a string, a native boolean,
\* a number
RefinedAnswers == {JStr(<<"Y", "e", "s">>), JBool(FALSE), JNum(2)}

R_actor == <<"actor reasoning">>
R_refiner == <<"refiner reasoning">>

\* the outcomes of the Actor's awaited call: create() raises ("api_error"), or
\* it returns a completion with content that json.loads rejects, an object
\* without "answer" or without "reasoning", or a complete object
ActorResponses ==
    {[kind |-> k, answer |-> JNull, reasoning |-> <<>>] :
        k \in backend.faults \cap {"api_error", "not_json", "no_answer", "no_reasoning"}}
    \cup {[kind |-> "ok", answer |-> a, reasoning |-> R_actor] : a \in backend.answers}

\* the same for the Refiner ("refined_answer", "reasoning")
RefinerResponses ==
    {[kind |-> k, answer |-> JNull, reasoning |-> <<>>] :
        k \in backend.faults \cap {"api_error", "not_json", "no_answer", "no_reasoning"}}
    \cup {[kind |-> "ok", answer |-> a, reasoning |-> R_refiner] : a \in backend.refined}

\* "confidence_score": a JSON number (in hundredths), the NaN that json.loads
\* reads from the token NaN, or null
Score(k, n) == [k |-> k, n |-> n]

\* "improvements": a list of strings, null, (key absent) the default [], or
\* any other JSON value (j)
ImpList(items) == [k |-> "list", items |-> items, j |-> JNull]
ImpNull == [k |-> "null", items |-> <<>>, j |-> JNull]
ImpValue(j) == [k |-> "other", items |-> <<>>, j |-> j]
ImprovementItems == <<<<"improvement 1">>, <<"improvement 2">>, <<"improvement 3">>>>
S_add_units == <<"a", "d", "d", " ", "u", "n", "i", "t", "s">>
AllImprovements ==
    {ImpNull} \cup {ImpList(SubSeq(ImprovementItems, 1, n)) : n \in 0..MaxImprovements}
    \cup {ImpValue(j) : j \in {JStr(S_add_units), JBool(TRUE), JObj(1),
                               JBool(FALSE), JNum(0), JStr(<<>>), JObj(0)}}

CriticResponses ==
    {[kind |-> k, score |-> Score("null", 0), improvements |-> ImpNull, has_improvements |-> FALSE] :
        k \in backend.faults \cap {"api_error", "not_json", "no_score"}}
    \cup {[kind |-> "ok", score |-> sc, improvements |-> im, has_improvements |-> TRUE] :
            sc \in backend.scores, im \in backend.improvements}
    \cup {[kind |-> "ok", score |-> sc, improvements |-> ImpNull, has_improvements |-> FALSE] :
            sc \in backend.scores, k \in backend.faults \cap {"no_improvements"}}


\* a backend that may send anything of the above
AnyBackend ==
    [answers |-> AllAnswers,
     refined |-> RefinedAnswers,
     scores |-> {Score("num", n) : n \in {-1, 0, 79, 80, 101}}
                \cup {Score("null", 0), Score("nan", 0)},
     improvements |-> AllImprovements,
     faults |-> {"api_error", "not_json", "no_answer", "no_reasoning", "no_score",
                 "no_improvements"}]

----------------------------------------------------------------------------
(* LLMService.generate_answer_with_confidence *)

\* truth value of `improvements` in `... and improvements and ...` (line 561)
\* and in `improvements if improvements else None` (line 575)
ImpTruthy(im) ==
    CASE im.k = "list" -> Len(im.items) > 0
      [] im.k = "other" -> JsonTruth(im.j)
      [] OTHER -> FALSE

\* enumerate(improvements) in the Refiner's prompt takes a list, a str or a
\* dict; a bool or a number raises TypeError
ImpIterable(im) == im.k = "list" \/ (im.k = "other" /\ im.j.k \in {"str", "list", "obj"})

\* improvements: list[str] | None, given `improvements if improvements else None`
ImpAccepted(im) == ~ImpTruthy(im) \/ im.k = "list"

\* 0.8, in hundredths
RefineBelow == 80

\* what the Critic returns without calling the backend: 0.9, []
BypassScore == 90
critic_bypass == [score |-> Score("num", BypassScore), improvements |-> ImpList(<<>>)]

\* a bypass taken only when both are missing
critic_is_bypassed_both == ~enable_actor_critic /\ ~client

\* `if not self.enable_actor_critic or not self.client` (line 338)
critic_is_bypassed == ~enable_actor_critic \/ ~client

\* `confidence < 0.8` is defined for a float only (NaN is one); None raises
\* TypeError
ScoreComparable(sc) == sc.k \in {"num", "nan"}

\* `confidence < 0.8`; every comparison with NaN is False
ScoreBelow(sc) == sc.k = "num" /\ sc.n < RefineBelow

\* a refinement test that is off when confidence scores are off
should_refine_when_scored(sc, im) ==
    ScoreBelow(sc) /\ ImpTruthy(im) /\ enable_actor_critic /\ enable_confidence

\* `confidence < 0.8 and improvements and self.enable_actor_critic` (line 561)
should_refine(sc, im) == ScoreBelow(sc) /\ ImpTruthy(im) /\ enable_actor_critic

\* a confidence field declared without its bounds
ConfidenceUnbounded(sc) == sc.k \in {"num", "nan"}

\* confidence: float = Field(ge=0.0, le=1.0); None is no float, and NaN
\* fails both comparisons
ConfidenceValid(sc) == sc.k = "num" /\ 0 <= sc.n /\ sc.n <= 100

FullConfidence == 100

NoQuestion == Q("none", <<>>, <<>>)
NoValue == PyStr(<<>>)
NoRet ==
    [status |-> "none", question |-> NoQuestion, value |-> NoValue, confidence |-> 0,
     reasoning |-> <<>>, improvements |-> ImpNull, error |-> "none"]
Raised(e) == [NoRet EXCEPT !.status = "raised", !.error = e]

\* the constructor call without `reasoning=reasoning`
make_answer_no_reasoning(q, v, sc, r, im) ==
    LET conf == IF enable_confidence THEN sc ELSE Score("num", FullConfidence)
    IN IF ConfidenceValid(conf) /\ ValueAccepted(v) /\ ImpAccepted(im)
       THEN [status |-> "ok", question |-> q, value |-> ValueStored(v),
             confidence |-> conf.n,
             reasoning |-> <<>>, improvements |-> (IF ImpTruthy(im) THEN im ELSE ImpNull),
             error |-> "none"]
       ELSE Raised("ValidationError")

\* AnswerWithConfidence(...) at the end of the pipeline (lines 570-576)
make_answer(q, v, sc, r, im) ==
    LET conf == IF enable_confidence THEN sc ELSE Score("num", FullConfidence)
    IN IF ConfidenceValid(conf) /\ ValueAccepted(v) /\ ImpAccepted(im)
       THEN [status |-> "ok", question |-> q, value |-> ValueStored(v),
             confidence |-> conf.n,
             reasoning |-> r, improvements |-> (IF ImpTruthy(im) THEN im ELSE ImpNull),
             error |-> "none"]
       ELSE Raised("ValidationError")

\* what one call has seen so far; responses: the completions the backend has
\* returned, in order, each "ok" or named after what it lacks
NothingObserved ==
    [actor_value |-> NoValue, actor_reasoning |-> <<>>,
     score1 |-> Score("null", 0), improvements1 |-> ImpNull,
     refined_value |-> NoValue, refined_reasoning |-> <<>>,
     score2 |-> Score("null", 0),
     critic_returns |-> 0,
     responses |-> <<>>]

GenIdle ==
    /\ pc = "idle" /\ cur_question = NoQuestion /\ previous_answers = <<>>
    /\ answer_value = NoValue /\ reasoning = <<>>
    /\ confidence = Score("null", 0) /\ improvements = ImpNull
    /\ observed = NothingObserved /\ trace = <<>> /\ backend_calls = 0 /\ ret = NoRet

\* the caller enters generate_answer_with_confidence(patient, q, prev)
GenCall(q, prev) ==
    /\ pc = "idle"
    /\ pc' = "actor"
    /\ cur_question' = q
    /\ previous_answers' = prev
    /\ UNCHANGED <<answer_value, reasoning, confidence, improvements, observed, trace,
                   backend_calls, ret>>

\* the caller has taken the result (or the exception): the locals are gone
GenReset ==
    /\ pc' = "idle" /\ cur_question' = NoQuestion /\ previous_answers' = <<>>
    /\ answer_value' = NoValue /\ reasoning' = <<>>
    /\ confidence' = Score("null", 0) /\ improvements' = ImpNull
    /\ observed' = NothingObserved /\ trace' = <<>> /\ backend_calls' = 0 /\ ret' = NoRet

\* a pipeline that starts over with the Actor when a stage fails
GenRetry(e) ==
    /\ pc' = "actor"
    /\ ret' = ret

GenRaise(e) ==
    /\ pc' = "raised"
    /\ ret' = Raised(e)

GenReturn(v, sc, r, im) ==
    LET a == make_answer(cur_question, v, sc, r, im)
    IN /\ ret' = a
       /\ pc' = IF a.status = "ok" THEN "returned" ELSE "raised"

\* the stages at which the coroutine is suspended in
\* `await self.client.chat.completions.create(...)` (lines 284, 419, 504):
\* the request is out and nothing has come back
AwaitStages == {"actor_await", "critic1_await", "refiner_await", "critic2_await"}

\* the request goes out and the coroutine suspends
BackendCall(stage) ==
    /\ backend_calls' = backend_calls + 1
    /\ pc' = stage
    /\ ret' = ret

\* a completion has come back: it is one more response read
Received(obs, kind) == [obs EXCEPT !.responses = Append(@, kind)]

\* the awaited call ended with no completion (it raised) or with one that
\* the stage cannot read
Failed(obs, kind) == IF kind = "api_error" THEN obs ELSE Received(obs, kind)

\* what _generate_base_answer does with the outcome of its call (lines 284-308)
ActorError(resp) ==
    CASE resp.kind = "api_error" -> "APIError"
      [] resp.kind = "not_json" -> "JSONDecodeError"
      [] resp.kind = "no_answer" -> "KeyError"
      [] resp.kind = "no_reasoning" -> "KeyError"
      [] OTHER -> "none"

\* _extract_patient_context, then Step 1: _generate_base_answer up to its
\* return (the simulation) or up to its await (line 284)
ActorCall ==
    /\ pc = "actor"
    /\ IF ~StrptimeAccepts(patient.date_of_birth)
       THEN /\ GenRaise("ValueError")
            /\ UNCHANGED <<answer_value, reasoning, observed, backend_calls, trace>>
       ELSE
           /\ trace' = Append(trace, "actor")
           /\ IF ~client
              THEN LET sim == simulate_answer(build_context(patient, previous_answers, today),
                                              cur_question)
                   IN /\ answer_value' = sim.value
                      /\ reasoning' = sim.reasoning
                      /\ observed' = [observed EXCEPT !.actor_value = sim.value,
                                                      !.actor_reasoning = sim.reasoning]
                      /\ backend_calls' = backend_calls
                      /\ pc' = "critic1"
                      /\ ret' = ret
              ELSE /\ BackendCall("actor_await")
                   /\ UNCHANGED <<answer_value, reasoning, observed>>
    /\ UNCHANGED <<cur_question, previous_answers, confidence, improvements>>
    /\ UNCHANGED <<svc_vars, batch_vars, cond_vars, eval_vars, pure_vars, app_vars>>

\* the Actor's awaited call is over: create() raised, or its completion is
\* read (lines 286-308)
ActorResume ==
    /\ pc = "actor_await"
    /\ \E resp \in ActorResponses :
          IF resp.kind = "ok"
          THEN LET v == coerce_answer(cur_question, resp.answer)
               IN /\ answer_value' = v
                  /\ reasoning' = resp.reasoning
                  /\ observed' = [Received(observed, resp.kind) EXCEPT
                                      !.actor_value = v,
                                      !.actor_reasoning = resp.reasoning]
                  /\ pc' = "critic1"
                  /\ ret' = ret
          ELSE /\ GenRaise(ActorError(resp))
               /\ observed' = Failed(observed, resp.kind)
               /\ UNCHANGED <<answer_value, reasoning>>
    /\ UNCHANGED <<cur_question, previous_answers, confidence, improvements, trace,
                   backend_calls>>
    /\ UNCHANGED <<svc_vars, batch_vars, cond_vars, eval_vars, pure_vars, app_vars>>

\* what _critic_evaluate_answer returns for a backend response (lines 432-433):
\* result["confidence_score"], result.get("improvements", [])
critic_result(resp) ==
    [score |-> resp.score,
     improvements |-> IF resp.has_improvements THEN resp.improvements ELSE ImpList(<<>>)]

CriticError(resp) ==
    CASE resp.kind = "api_error" -> "APIError"
      [] resp.kind = "not_json" -> "JSONDecodeError"
      [] resp.kind = "no_score" -> "KeyError"
      [] OTHER -> "none"

\* the name under which a completion the Critic could read is kept
CriticRead(resp) == <<IF resp.has_improvements THEN "ok" ELSE "no_improvements">>

\* a first pass that has the answer judged again before it is refined
AfterCritic1Rejudge(res, received) ==
    /\ confidence' = res.score
    /\ improvements' = res.improvements
    /\ observed' = [observed EXCEPT !.score1 = res.score, !.improvements1 = res.improvements,
                                    !.critic_returns = 1, !.responses = @ \o received]
    /\ IF ~ScoreComparable(res.score)
       THEN GenRaise("TypeError")
       ELSE IF should_refine(res.score, res.improvements)
            THEN pc' = "critic2" /\ ret' = ret
            ELSE GenReturn(answer_value, res.score, reasoning, res.improvements)

\* the first Critic pass has returned: the test of step 3 (line 561), then
\* refine or return (lines 570-576)
AfterCritic1(res, received) ==
    /\ confidence' = res.score
    /\ improvements' = res.improvements
    /\ observed' = [observed EXCEPT !.score1 = res.score, !.improvements1 = res.improvements,
                                    !.critic_returns = 1, !.responses = @ \o received]
    /\ IF ~ScoreComparable(res.score)
       THEN GenRaise("TypeError")
       ELSE IF should_refine(res.score, res.improvements)
            THEN pc' = "refiner" /\ ret' = ret
            ELSE GenReturn(answer_value, res.score, reasoning, res.improvements)

\* Step 2: _critic_evaluate_answer up to its return (the bypass) or up to its
\* await (line 419)
Critic1Call ==
    /\ pc = "critic1"
    /\ trace' = Append(trace, "critic")
    /\ IF critic_is_bypassed
       THEN /\ backend_calls' = backend_calls
            /\ AfterCritic1(critic_bypass, <<>>)
       ELSE /\ BackendCall("critic1_await")
            /\ UNCHANGED <<confidence, improvements, observed>>
    /\ UNCHANGED <<cur_question, previous_answers, answer_value, reasoning>>
    /\ UNCHANGED <<svc_vars, batch_vars, cond_vars, eval_vars, pure_vars, app_vars>>

\* the first Critic pass's awaited call is over (lines 421-433), and the
\* pipeline goes on to line 561
Critic1Resume ==
    /\ pc = "critic1_await"
    /\ \E resp \in CriticResponses :
          IF resp.kind = "ok"
          THEN AfterCritic1(critic_result(resp), CriticRead(resp))
          ELSE /\ GenRaise(CriticError(resp))
               /\ observed' = Failed(observed, resp.kind)
               /\ UNCHANGED <<confidence, improvements>>
    /\ UNCHANGED <<cur_question, previous_answers, answer_value, reasoning, trace,
                   backend_calls>>
    /\ UNCHANGED <<svc_vars, batch_vars, cond_vars, eval_vars, pure_vars, app_vars>>

R_maintained == <<"Answer maintained (no LLM client available for refinement)">>

\* Step 3: _refine_answer_with_feedback up to its return (no client), its
\* prompt (which enumerates the improvements) or its await (line 504)
RefinerCall ==
    /\ pc = "refiner"
    /\ trace' = Append(trace, "refiner")
    /\ IF ~client
       THEN /\ answer_value' = answer_value
            /\ reasoning' = R_maintained
            /\ observed' = [observed EXCEPT !.refined_value = answer_value,
                                            !.refined_reasoning = R_maintained]
            /\ backend_calls' = backend_calls
            /\ pc' = "critic2"
            /\ ret' = ret
       ELSE IF ~ImpIterable(improvements)
            THEN /\ GenRaise("TypeError")
                 /\ UNCHANGED <<answer_value, reasoning, observed, backend_calls>>
            ELSE /\ BackendCall("refiner_await")
                 /\ UNCHANGED <<answer_value, reasoning, observed>>
    /\ UNCHANGED <<cur_question, previous_answers, confidence, improvements>>
    /\ UNCHANGED <<svc_vars, batch_vars, cond_vars, eval_vars, pure_vars, app_vars>>

\* the Refiner's awaited call is over: create() raised, or its completion is
\* read (lines 506-531)
RefinerResume ==
    /\ pc = "refiner_await"
    /\ \E resp \in RefinerResponses :
          IF resp.kind = "ok"
          THEN LET v == coerce_refined(cur_question, resp.answer)
               IN /\ answer_value' = v
                  /\ reasoning' = resp.reasoning
                  /\ observed' = [Received(observed, resp.kind) EXCEPT
                                      !.refined_value = v,
                                      !.refined_reasoning = resp.reasoning]
                  /\ pc' = "critic2"
                  /\ ret' = ret
          ELSE /\ GenRaise(ActorError(resp))
               /\ observed' = Failed(observed, resp.kind)
               /\ UNCHANGED <<answer_value, reasoning>>
    /\ UNCHANGED <<cur_question, previous_answers, confidence, improvements, trace,
                   backend_calls>>
    /\ UNCHANGED <<svc_vars, batch_vars, cond_vars, eval_vars, pure_vars, app_vars>>

\* a second pass that refines again while the score stays low
AfterCritic2Again(res, received) ==
    /\ confidence' = res.score
    /\ observed' = [observed EXCEPT !.score2 = res.score, !.critic_returns = 2,
                                    !.responses = @ \o received]
    /\ IF ScoreComparable(res.score) /\ should_refine(res.score, improvements)
       THEN pc' = "refiner" /\ ret' = ret
       ELSE GenReturn(answer_value, res.score, reasoning, improvements)

\* a second pass whose improvements replace those of the first
AfterCritic2KeepsNew(res, received) ==
    /\ confidence' = res.score
    /\ observed' = [observed EXCEPT !.score2 = res.score, !.critic_returns = 2,
                                    !.responses = @ \o received]
    /\ GenReturn(answer_value, res.score, reasoning, res.improvements)

\* "Re-evaluate after refinement": confidence, _ = the second Critic pass,
\* then the return (lines 566-576)
AfterCritic2(res, received) ==
    /\ confidence' = res.score
    /\ observed' = [observed EXCEPT !.score2 = res.score, !.critic_returns = 2,
                                    !.responses = @ \o received]
    /\ GenReturn(answer_value, res.score, reasoning, improvements)

\* the second Critic pass up to its return (the bypass) or its await (line 419)
Critic2Call ==
    /\ pc = "critic2"
    /\ trace' = Append(trace, "critic")
    /\ IF critic_is_bypassed
       THEN /\ backend_calls' = backend_calls
            /\ AfterCritic2(critic_bypass, <<>>)
       ELSE /\ BackendCall("critic2_await")
            /\ UNCHANGED <<confidence, observed>>
    /\ UNCHANGED <<cur_question, previous_answers, answer_value, reasoning, improvements>>
    /\ UNCHANGED <<svc_vars, batch_vars, cond_vars, eval_vars, pure_vars, app_vars>>

\* the second Critic pass's awaited call is over, and the pipeline returns
Critic2Resume ==
    /\ pc = "critic2_await"
    /\ \E resp \in CriticResponses :
          IF resp.kind = "ok"
          THEN AfterCritic2(critic_result(resp), CriticRead(resp))
          ELSE /\ GenRaise(CriticError(resp))
               /\ observed' = Failed(observed, resp.kind)
               /\ UNCHANGED <<confidence>>
    /\ UNCHANGED <<cur_question, previous_answers, answer_value, reasoning, improvements,
                   trace, backend_calls>>
    /\ UNCHANGED <<svc_vars, batch_vars, cond_vars, eval_vars, pure_vars, app_vars>>

----------------------------------------------------------------------------
(* LLMService.process_questions_batch *)

\* the AnswerWithConfidence object kept in the result list
AnswerOf(r) ==
    [question |-> r.question, value |-> r.value, confidence |-> r.confidence,
     reasoning |-> r.reasoning, improvements |-> r.improvements]

\* `question.visible_if and not self._evaluate_condition(...)` (lines 588-590)
is_skipped(question, answered) ==
    Len(question.visible_if) > 0 /\ ~evaluate_condition(question.visible_if, answered)

\* a loop that records a placeholder for the question it passes over
BatchSkipPlaceholder ==
    /\ batch_pc = "loop"
    /\ qi <= Len(questions)
    /\ is_skipped(questions[qi], answered_questions)
    /\ qi' = qi + 1
    /\ skipped' = skipped \cup {qi}
    /\ answers_with_confidence' =
          Append(answers_with_confidence,
                 [question |-> questions[qi], value |-> NoValue, confidence |-> 0,
                  reasoning |-> <<>>, improvements |-> ImpNull])
    /\ UNCHANGED <<patient, questions, answered_questions, batch_pc, today>>
    /\ UNCHANGED <<svc_vars, gen_vars, cond_vars, eval_vars, pure_vars, app_vars>>

\* the loop passes over a question whose condition is false
BatchSkip ==
    /\ batch_pc = "loop"
    /\ qi <= Len(questions)
    /\ is_skipped(questions[qi], answered_questions)
    /\ qi' = qi + 1
    /\ skipped' = skipped \cup {qi}
    /\ UNCHANGED <<patient, questions, answered_questions, answers_with_confidence,
                   batch_pc, today>>
    /\ UNCHANGED <<svc_vars, gen_vars, cond_vars, eval_vars, pure_vars, app_vars>>

\* the loop awaits generate_answer_with_confidence(patient, question, answered_questions)
BatchAsk ==
    /\ batch_pc = "loop"
    /\ qi <= Len(questions)
    /\ ~is_skipped(questions[qi], answered_questions)
    /\ GenCall(questions[qi], answered_questions)
    /\ batch_pc' = "awaiting"
    /\ UNCHANGED <<patient, questions, qi, answered_questions, answers_with_confidence,
                   today, skipped>>
    /\ UNCHANGED <<svc_vars, cond_vars, eval_vars, pure_vars, app_vars>>

\* the answer comes back: lines 598-599
BatchCollect ==
    /\ batch_pc = "awaiting"
    /\ pc = "returned"
    /\ answers_with_confidence' = Append(answers_with_confidence, AnswerOf(ret))
    /\ answered_questions' = DictSet(answered_questions, questions[qi].key, ret.value)
    /\ qi' = qi + 1
    /\ batch_pc' = "loop"
    /\ GenReset
    /\ UNCHANGED <<patient, questions, today, skipped>>
    /\ UNCHANGED <<svc_vars, cond_vars, eval_vars, pure_vars, app_vars>>

\* a loop that passes over a question whose pipeline failed
BatchDropFailed ==
    /\ batch_pc = "awaiting"
    /\ pc = "raised"
    /\ qi' = qi + 1
    /\ batch_pc' = "loop"
    /\ GenReset
    /\ UNCHANGED <<patient, questions, answered_questions, answers_with_confidence,
                   today, skipped>>
    /\ UNCHANGED <<svc_vars, cond_vars, eval_vars, pure_vars, app_vars>>

\* an exception of the pipeline leaves the loop and the call
BatchPropagate ==
    /\ batch_pc = "awaiting"
    /\ pc = "raised"
    /\ batch_pc' = "failed"
    /\ UNCHANGED <<patient, questions, qi, answered_questions, answers_with_confidence,
                   today, skipped>>
    /\ UNCHANGED <<svc_vars, gen_vars, cond_vars, eval_vars, pure_vars, app_vars>>

\* `return answers_with_confidence`
BatchReturn ==
    /\ batch_pc = "loop"
    /\ qi > Len(questions)
    /\ batch_pc' = "done"
    /\ UNCHANGED <<patient, questions, qi, answered_questions, answers_with_confidence,
                   today, skipped>>
    /\ UNCHANGED <<svc_vars, gen_vars, cond_vars, eval_vars, pure_vars, app_vars>>

----------------------------------------------------------------------------
(* main.py: POST /answers *)

\* the last second datetime.now() shows
MaxSeconds == 1

\* the most /answers requests made
MaxRequests == 2

\* answers_db[f"{auth_id}:{awc.question.key}"] = {...} for every answer, in order
RECURSIVE StoreAnswers(_, _, _)
StoreAnswers(db, awcs, auth_id) ==
    IF awcs = <<>>
    THEN db
    ELSE LET awc == Head(awcs)
         IN StoreAnswers(DictSet(db,
                                 [authorization_id |-> auth_id, question_key |-> awc.question.key],
                                 [authorization_id |-> auth_id, question |-> awc.question,
                                  value |-> awc.value, confidence |-> awc.confidence,
                                  reasoning |-> awc.reasoning]),
                         Tail(awcs), auth_id)

\* get_answers after process_questions_batch has returned or raised: the
\* answers are stored under AUTH-<now> and returned, or the exception becomes
\* HTTPException(500) (lines 86-151)
AnswersRespond ==
    /\ batch_pc \in {"done", "failed"}
    /\ http.status = 0
    /\ IF batch_pc = "done"
       THEN \E t \in {now_s, now_s + 1} :
               /\ t <= MaxSeconds
               /\ now_s' = t
               /\ answers_db' = StoreAnswers(answers_db, answers_with_confidence, t)
               /\ http' = [status |-> 200,
                           answers |-> [i \in 1..Len(answers_with_confidence) |->
                                           [question |-> answers_with_confidence[i].question,
                                            value |-> answers_with_confidence[i].value]],
                           detail |-> "none"]
               /\ served' = Append(served, [status |-> 200, authorization_id |-> t,
                                            stored |-> answers_with_confidence])
       ELSE /\ answers_db' = answers_db
            /\ http' = [status |-> 500, answers |-> <<>>, detail |-> ret.error]
            /\ served' = Append(served, [status |-> 500, authorization_id |-> now_s,
                                         stored |-> <<>>])
            /\ now_s' = now_s
    /\ UNCHANGED <<svc_vars, batch_vars, gen_vars, cond_vars, eval_vars, pure_vars,
                   stream_vars, cycle_vars, conc_vars>>

----------------------------------------------------------------------------
(* main.py: generate_answers_stream behind POST /answers/stream *)

\* the generator is started on the patient and the questions of the request
StreamStart ==
    /\ stream_pc = "idle"
    /\ batch_pc \in {"done", "failed"}
    /\ stream_pc' = "loop"
    /\ GenReset
    /\ UNCHANGED <<si, yielded>>
    /\ UNCHANGED <<svc_vars, batch_vars, cond_vars, eval_vars, pure_vars, api_vars,
                   cycle_vars, conc_vars>>

\* a generator that passes over the questions that have a condition
StreamAskUnconditional ==
    /\ stream_pc = "loop"
    /\ si <= Len(questions)
    /\ IF questions[si].visible_if # <<>>
       THEN /\ si' = si + 1
            /\ UNCHANGED <<stream_pc, gen_vars>>
       ELSE /\ GenCall(questions[si], <<>>)
            /\ stream_pc' = "awaiting"
            /\ si' = si
    /\ UNCHANGED yielded
    /\ UNCHANGED <<svc_vars, batch_vars, cond_vars, eval_vars, pure_vars, api_vars,
                   cycle_vars, conc_vars>>

\* `answer = await llm_service.generate_answer_with_confidence(patient, question)`
StreamAsk ==
    /\ stream_pc = "loop"
    /\ si <= Len(questions)
    /\ GenCall(questions[si], <<>>)
    /\ stream_pc' = "awaiting"
    /\ UNCHANGED <<si, yielded>>
    /\ UNCHANGED <<svc_vars, batch_vars, cond_vars, eval_vars, pure_vars, api_vars,
                   cycle_vars, conc_vars>>

\* the answer comes back and its record is yielded (lines 206-217)
StreamYield ==
    /\ stream_pc = "awaiting"
    /\ pc = "returned"
    /\ yielded' = Append(yielded, [question_key |-> questions[si].key, value |-> ret.value,
                                   confidence |-> ret.confidence,
                                   reasoning |-> ret.reasoning])
    /\ si' = si + 1
    /\ stream_pc' = "loop"
    /\ GenReset
    /\ UNCHANGED <<svc_vars, batch_vars, cond_vars, eval_vars, pure_vars, api_vars,
                   cycle_vars, conc_vars>>

\* an exception of the pipeline ends the generator
StreamPropagate ==
    /\ stream_pc = "awaiting"
    /\ pc = "raised"
    /\ stream_pc' = "failed"
    /\ UNCHANGED <<si, yielded>>
    /\ UNCHANGED <<svc_vars, batch_vars, gen_vars, cond_vars, eval_vars, pure_vars, api_vars,
                   cycle_vars, conc_vars>>

\* the loop is exhausted
StreamEnd ==
    /\ stream_pc = "loop"
    /\ si > Len(questions)
    /\ stream_pc' = "done"
    /\ UNCHANGED <<si, yielded>>
    /\ UNCHANGED <<svc_vars, batch_vars, gen_vars, cond_vars, eval_vars, pure_vars, api_vars,
                   cycle_vars, conc_vars>>

----------------------------------------------------------------------------
(* _evaluate_condition on chosen inputs *)

CondInputs ==
    {<<>>, C_a_true, C_b_and_a, C_free_text, C_bmi30_false_and_free, C_x_true,
     <<"{", "a", "}", " ", "=", " ", "t", "r", "u", "e", " ", "a", "n", "d", " ", "{", "b", "}", " ", "=", " ", "f", "a", "l", "s", "e">>,
     <<" ", " ", "{", "a", "}", "=", "T", "R", "U", "E", " ", " ">>,
     <<"{", "a", "}", " ", "=">>,
     <<"{", "}", " ", "=", " ", "t", "r", "u", "e">>,
     <<"x", " ", "{", "a", "}", " ", "=", " ", "t", "r", "u", "e">>,
     <<"{", "a", "}", " ", "=", " ", "t", "r", "u", "e", " ", "a", "n", "d", " ">>,
     <<"{", "a", "}", " ", "=", " ", "y", "e", "s">>,
     <<"m", "a", "y", "b", "e", " ", "a", "n", "d", " ", "{", "a", "}", " ", "=", " ", "t", "r", "u", "e">>,
     <<"m", "a", "y", "b", "e", " ", "a", "n", "d", " ", "o", "k">>,
     <<"{", "a", "}", "\r", "=", "\r", "t", "r", "u", "e">>,
     <<"{", "a", "}", " ", "=", " ", "t", "r", "u", "e", "\r">>}

CondValues ==
    {PyBool(TRUE), PyBool(FALSE), PyStr(S_true), PyStr(<<"T", "R", "U", "E">>), PyStr(S_yes)}

CondAnswerMaps ==
    {<<>>}
    \cup {<<[key |-> <<"a">>, value |-> v]>> : v \in CondValues}
    \cup {<<[key |-> <<"b">>, value |-> v]>> : v \in {PyBool(TRUE), PyBool(FALSE)}}
    \cup {<<[key |-> <<"a">>, value |-> v], [key |-> <<"b">>, value |-> w]>> :
            v \in CondValues, w \in {PyBool(TRUE), PyBool(FALSE), PyStr(S_False)}}

CondIdle == cond_in = <<>> /\ cond_answers = <<>> /\ cond_out = "none"

\* no request has been answered and nothing is stored (main.py, line 58)
NoResponse == [status |-> 0, answers |-> <<>>, detail |-> "none"]
ApiIdle == answers_db = <<>> /\ http = NoResponse /\ now_s = 0 /\ served = <<>>
\* generate_answers_stream has not been called
StreamIdle == stream_pc = "idle" /\ si = 1 /\ yielded = <<>>
\* continuous_improvement_cycle has not been called
CycleIdle == cycle_pc = "idle" /\ hook_calls = <<>> /\ slept = 0
\* there is no second coroutine
NoContext == [eval_pc |-> "none"]
ConcIdle == running = 1 /\ other = NoContext
AppIdle == ApiIdle /\ StreamIdle /\ CycleIdle /\ ConcIdle

\* no function is applied on its own
PureIdle == fn_call = [fn |-> "none"] /\ fn_ret = [status |-> "none", value |-> 0]

Evaluate ==
    /\ cond_out = "none"
    /\ cond_out' = IF evaluate_condition(cond_in, cond_answers) THEN "true" ELSE "false"
    /\ UNCHANGED <<cond_in, cond_answers>>
    /\ UNCHANGED <<svc_vars, batch_vars, gen_vars, eval_vars, pure_vars, app_vars>>

----------------------------------------------------------------------------
(* EvaluationPipeline: the test cases of _load_test_cases *)

\* expected_reasoning and the question's content are prompt text and are left out;
\* acceptable_variations = None is the empty list (`or []`, `if acceptable_variations`)
TestCase1 ==
    [patient |->
        [first_name |-> <<"T", "e", "s", "t">>, last_name |-> <<"P", "a", "t", "i", "e", "n", "t", "1">>,
           date_of_birth |-> <<"1", "9", "7", "5", "-", "0", "1", "-", "0", "1">>, gender |-> <<"M", "a", "l", "e">>,
           prescription |-> [medication |-> <<"Z", "e", "p", "b", "o", "u", "n", "d">>, dosage |-> <<"1", "0", " ", "m", "g">>,
                             frequency |-> <<"o", "n", "c", "e", " ", "w", "e", "e", "k", "l", "y">>,
                             duration |-> <<"o", "n", "g", "o", "i", "n", "g">>],
           visit_notes |-> <<
              <<"P", "a", "t", "i", "e", "n", "t", " ", "h", "e", "i", "g", "h", "t", ":", " ",
                "1", "7", "0", " ", "c", "m", ",", " ", "w", "e", "i", "g", "h", "t", ":", " ",
                "9", "5", " ", "k", "g">>,
              <<"B", "M", "I", " ", "c", "a", "l", "c", "u", "l", "a", "t", "e", "d", " ", "a",
                "t", " ", "3", "2", ".", "9", " ", "k", "g", "/", "m", "²">>
           >>],
     question |-> Q("text", <<"b", "m", "i">>, <<>>),
     expected_answer |-> PyStr(<<"3", "2", ".", "9">>),
     acceptable_variations |-> <<PyStr(<<"3", "2", ".", "9", " ", "k", "g", "/", "m", "²">>), PyStr(<<"3", "3">>), PyStr(<<"3", "2", ".", "8", "7">>)>>,
     tags |-> <<"bmi", "calculation", "text_answer">>]

TestCase2 ==
    [patient |->
        [first_name |-> <<"T", "e", "s", "t">>, last_name |-> <<"P", "a", "t", "i", "e", "n", "t", "2">>,
           date_of_birth |-> <<"1", "9", "9", "0", "-", "0", "6", "-", "1", "5">>, gender |-> <<"F", "e", "m", "a", "l", "e">>,
           prescription |-> [medication |-> <<"Z", "e", "p", "b", "o", "u", "n", "d">>, dosage |-> <<"5", " ", "m", "g">>,
                             frequency |-> <<"o", "n", "c", "e", " ", "w", "e", "e", "k", "l", "y">>,
                             duration |-> <<"3", " ", "m", "o", "n", "t", "h", "s">>],
           visit_notes |-> <<
              <<"P", "a", "t", "i", "e", "n", "t", " ", "p", "r", "e", "s", "e", "n", "t", "s",
                " ", "f", "o", "r", " ", "w", "e", "i", "g", "h", "t", " ", "m", "a", "n", "a",
                "g", "e", "m", "e", "n", "t", " ", "c", "o", "n", "s", "u", "l", "t", "a", "t",
                "i", "o", "n">>
           >>],
     question |-> Q("text", <<"a", "g", "e">>, <<>>),
     expected_answer |-> PyStr(<<"3", "4">>),
     acceptable_variations |-> <<PyStr(<<"3", "4", " ", "y", "e", "a", "r", "s">>), PyStr(<<"3", "4">>)>>,
     tags |-> <<"age", "calculation", "demographics">>]

TestCase3 ==
    [patient |->
        [first_name |-> <<"T", "e", "s", "t">>, last_name |-> <<"P", "a", "t", "i", "e", "n", "t", "3">>,
           date_of_birth |-> <<"1", "9", "8", "0", "-", "0", "3", "-", "2", "0">>, gender |-> <<"M", "a", "l", "e">>,
           prescription |-> [medication |-> <<"Z", "e", "p", "b", "o", "u", "n", "d">>, dosage |-> <<"1", "5", " ", "m", "g">>,
                             frequency |-> <<"o", "n", "c", "e", " ", "w", "e", "e", "k", "l", "y">>,
                             duration |-> <<"o", "n", "g", "o", "i", "n", "g">>],
           visit_notes |-> <<
              <<"P", "a", "t", "i", "e", "n", "t", " ", "h", "a", "s", " ", "b", "e", "e", "n",
                " ", "o", "n", " ", "s", "t", "r", "u", "c", "t", "u", "r", "e", "d", " ", "d",
                "i", "e", "t", " ", "a", "n", "d", " ", "e", "x", "e", "r", "c", "i", "s", "e",
                " ", "p", "r", "o", "g", "r", "a", "m", " ", "f", "o", "r", " ", "8", " ", "m",
                "o", "n", "t", "h", "s">>,
              <<"R", "e", "g", "u", "l", "a", "r", " ", "f", "o", "l", "l", "o", "w", "-", "u",
                "p", "s", " ", "w", "i", "t", "h", " ", "n", "u", "t", "r", "i", "t", "i", "o",
                "n", "i", "s", "t", " ", "a", "n", "d", " ", "p", "e", "r", "s", "o", "n", "a",
                "l", " ", "t", "r", "a", "i", "n", "e", "r">>,
              <<"C", "o", "m", "p", "l", "i", "a", "n", "t", " ", "w", "i", "t", "h", " ", "l",
                "i", "f", "e", "s", "t", "y", "l", "e", " ", "m", "o", "d", "i", "f", "i", "c",
                "a", "t", "i", "o", "n", " ", "p", "r", "o", "t", "o", "c", "o", "l">>
           >>],
     question |-> Q("boolean", <<"a", "n", "t", "i", "o", "b", "e", "s", "i", "t", "y", "_", "w", "t", "_", "m", "g", "m", "t", "_", "6", "m">>, <<>>),
     expected_answer |-> PyBool(TRUE),
     acceptable_variations |-> <<>>,
     tags |-> <<"boolean", "lifestyle", "prerequisites">>]

TestCase4 ==
    [patient |->
        [first_name |-> <<"T", "e", "s", "t">>, last_name |-> <<"P", "a", "t", "i", "e", "n", "t", "4">>,
           date_of_birth |-> <<"1", "9", "8", "5", "-", "1", "1", "-", "1", "0">>, gender |-> <<"F", "e", "m", "a", "l", "e">>,
           prescription |-> [medication |-> <<"Z", "e", "p", "b", "o", "u", "n", "d">>, dosage |-> <<"1", "0", " ", "m", "g">>,
                             frequency |-> <<"o", "n", "c", "e", " ", "w", "e", "e", "k", "l", "y">>,
                             duration |-> <<"o", "n", "g", "o", "i", "n", "g">>],
           visit_notes |-> <<
              <<"P", "a", "t", "i", "e", "n", "t", " ", "o", "n", " ", "Z", "e", "p", "b", "o",
                "u", "n", "d", " ", "f", "o", "r", " ", "4", " ", "m", "o", "n", "t", "h", "s">>,
              <<"S", "t", "a", "r", "t", "e", "d", " ", "a", "t", " ", "1", "8", "5", " ", "l",
                "b", "s", ",", " ", "c", "u", "r", "r", "e", "n", "t", " ", "w", "e", "i", "g",
                "h", "t", " ", "1", "6", "5", " ", "l", "b", "s">>,
              <<"W", "e", "i", "g", "h", "t", " ", "l", "o", "s", "s", " ", "o", "f", " ", "2",
                "0", " ", "l", "b", "s", " ", "r", "e", "p", "r", "e", "s", "e", "n", "t", "s",
                " ", "1", "0", ".", "8", "%", " ", "r", "e", "d", "u", "c", "t", "i", "o", "n",
                " ", "f", "r", "o", "m", " ", "b", "a", "s", "e", "l", "i", "n", "e">>
           >>],
     question |-> Q("boolean", <<"c", "o", "n", "t", "_", "w", "l", "_", "g", "t", "5", "p", "e", "r", "c", "e", "n", "t">>, <<>>),
     expected_answer |-> PyBool(TRUE),
     acceptable_variations |-> <<>>,
     tags |-> <<"boolean", "weight_loss", "continuation">>]

TestCase5 ==
    [patient |->
        [first_name |-> <<"T", "e", "s", "t">>, last_name |-> <<"P", "a", "t", "i", "e", "n", "t", "5">>,
           date_of_birth |-> <<"1", "9", "7", "8", "-", "0", "7", "-", "2", "2">>, gender |-> <<"M", "a", "l", "e">>,
           prescription |-> [medication |-> <<"Z", "e", "p", "b", "o", "u", "n", "d">>, dosage |-> <<"5", " ", "m", "g">>,
                             frequency |-> <<"o", "n", "c", "e", " ", "w", "e", "e", "k", "l", "y">>,
                             duration |-> <<"n", "e", "w">>],
           visit_notes |-> <<
              <<"B", "M", "I", ":", " ", "2", "8", ".", "5", " ", "k", "g", "/", "m", "²">>,
              <<"D", "i", "a", "g", "n", "o", "s", "e", "d", " ", "w", "i", "t", "h", " ", "T",
                "y", "p", "e", " ", "2", " ", "D", "i", "a", "b", "e", "t", "e", "s", " ", "M",
                "e", "l", "l", "i", "t", "u", "s">>,
              <<"H", "y", "p", "e", "r", "t", "e", "n", "s", "i", "o", "n", " ", "-", " ", "c",
                "o", "n", "t", "r", "o", "l", "l", "e", "d", " ", "w", "i", "t", "h", " ", "m",
                "e", "d", "i", "c", "a", "t", "i", "o", "n">>,
              <<"D", "y", "s", "l", "i", "p", "i", "d", "e", "m", "i", "a", " ", "-", " ", "L",
                "D", "L", " ", "1", "6", "5", " ", "m", "g", "/", "d", "L">>
           >>],
     question |-> Q("boolean", <<"a", "n", "t", "i", "o", "b", "e", "s", "i", "t", "y", "_", "b", "m", "i", "_", "g", "e", "2", "7", "_", "c", "o", "m", "o", "r", "b", "i", "d">>, <<>>),
     expected_answer |-> PyBool(TRUE),
     acceptable_variations |-> <<>>,
     tags |-> <<"boolean", "bmi", "comorbidity">>]

TestCases == <<TestCase1, TestCase2, TestCase3, TestCase4, TestCase5>>
----------------------------------------------------------------------------
(* EvaluationPipeline._check_answer_correctness *)


\* s.replace(sub, "")
RECURSIVE Remove(_, _)
Remove(s, sub) ==
    LET i == Find(s, sub, 1)
    IN IF i = 0
       THEN s
       ELSE SubSeq(s, 1, i - 1) \o Remove(SubSeq(s, i + Len(sub), Len(s)), sub)

\* the separators FS, GS, RS and US: whitespace to str.isspace(), not to float()
InformationSeparators == {"", "", "", ""}

\* float(s) reads s with every decimal digit as its ASCII digit and every
\* whitespace character it knows as a blank
ToAscii(s) ==
    <<>> \o [i \in 1..Len(s) |->
                IF s[i] \in Whitespace \ InformationSeparators
                THEN " "
                ELSE IF IsDigit(s[i]) THEN Digits[DigitVal(s[i]) + 1] ELSE s[i]]

\* an underscore stands between two digits
UnderscoresPlaced(t) ==
    \A i \in 1..Len(t) :
        t[i] = "_" => (i > 1 /\ i < Len(t) /\ IsDigit(t[i - 1]) /\ IsDigit(t[i + 1]))

NotUnderscore(c) == c # "_"

\* the text without the blanks around it
Trim(t) ==
    IF \A i \in 1..Len(t) : t[i] = " "
    THEN <<>>
    ELSE SubSeq(t,
                CHOOSE i \in 1..Len(t) : t[i] # " " /\ \A j \in 1..(i - 1) : t[j] = " ",
                CHOOSE i \in 1..Len(t) : t[i] # " " /\ \A j \in (i + 1)..Len(t) : t[j] = " ")

\* what float(s) parses: s in ASCII, without underscores and outer blanks
FloatText(s) == Trim(SelectSeq(ToAscii(s), NotUnderscore))

\* the text without a leading sign
FloatBody(s) == IF Len(s) > 0 /\ s[1] \in {"+", "-"} THEN Tail(s) ELSE s

\* body is the word, in any case
IsWord(body, lower, upper) ==
    Len(body) = Len(lower) /\ \A i \in 1..Len(body) : body[i] \in {lower[i], upper[i]}

IsInfinity(body) ==
    \/ IsWord(body, <<"i", "n", "f">>, <<"I", "N", "F">>)
    \/ IsWord(body, <<"i", "n", "f", "i", "n", "i", "t", "y">>,
              <<"I", "N", "F", "I", "N", "I", "T", "Y">>)

IsNan(body) == IsWord(body, <<"n", "a", "n">>, <<"N", "A", "N">>)

\* where the exponent of a numeral begins; 0 when it has none
ExponentAt(body) ==
    IF \E i \in 1..Len(body) : body[i] \in {"e", "E"}
    THEN CHOOSE i \in 1..Len(body) :
             body[i] \in {"e", "E"} /\ \A j \in 1..(i - 1) : body[j] \notin {"e", "E"}
    ELSE 0

MantissaText(body) ==
    IF ExponentAt(body) = 0 THEN body ELSE SubSeq(body, 1, ExponentAt(body) - 1)

ExponentText(body) ==
    IF ExponentAt(body) = 0 THEN <<>> ELSE SubSeq(body, ExponentAt(body) + 1, Len(body))

\* digits with at most one point
IsMantissa(m) ==
    /\ Cardinality({i \in 1..Len(m) : m[i] = "."}) <= 1
    /\ \A i \in 1..Len(m) : m[i] = "." \/ IsDigit(m[i])
    /\ \E i \in 1..Len(m) : IsDigit(m[i])

\* a mantissa, then nothing or an exponent of digits
IsNumeral(body) ==
    /\ IsMantissa(MantissaText(body))
    /\ ExponentAt(body) # 0 => AllDigits(FloatBody(ExponentText(body)))

IsFloatBody(body) == IsInfinity(body) \/ IsNan(body) \/ IsNumeral(body)

\* float(s) does not raise ValueError
IsFloatText(s) ==
    /\ UnderscoresPlaced(ToAscii(s))
    /\ IsFloatBody(FloatBody(FloatText(s)))

\* Natural numbers of any size: the decimal digits, most significant first,
\* and <<>> for zero
StripZeros(x) ==
    IF \A i \in 1..Len(x) : x[i] = 0
    THEN <<>>
    ELSE SubSeq(x, CHOOSE i \in 1..Len(x) : x[i] # 0 /\ \A j \in 1..(i - 1) : x[j] = 0,
                Len(x))

Zeros(n) == <<>> \o [i \in 1..n |-> 0]

\* x < y
Less(x, y) ==
    \/ Len(x) < Len(y)
    \/ /\ Len(x) = Len(y)
       /\ \E i \in 1..Len(x) : x[i] < y[i] /\ \A j \in 1..(i - 1) : x[j] = y[j]

\* 2 * x: a digit takes a carry when the digit after it is 5 or more
Twice(x) ==
    LET body == [i \in 1..Len(x) |->
                    (2 * x[i] + (IF i < Len(x) /\ x[i + 1] >= 5 THEN 1 ELSE 0)) % 10]
    IN (IF Len(x) > 0 /\ x[1] >= 5 THEN <<1>> ELSE <<>>) \o body

\* x - y for x >= y: a digit lends when what follows it in x is less than what
\* follows it in y
Minus(x, y) ==
    LET n == Len(x)
        pad == n - Len(y)
        yd(i) == IF i <= pad THEN 0 ELSE y[i - pad]
        lends(i) == \E j \in (i + 1)..n :
                        yd(j) > x[j] /\ \A k \in (i + 1)..(j - 1) : x[k] = yd(k)
    IN StripZeros(<<>> \o [i \in 1..n |->
                               (10 + x[i] - yd(i) - (IF lends(i) THEN 1 ELSE 0)) % 10])

\* a / b * 2^e, towards 1 <= a / b < 2; e stays at -1022 for a subnormal
ScaleStep(st) ==
    LET b2 == Twice(st.b)
    IN IF ~Less(st.a, b2)
       THEN [a |-> st.a, b |-> b2, e |-> st.e + 1]
       ELSE IF Less(st.a, st.b) /\ st.e > -1022
            THEN [a |-> Twice(st.a), b |-> st.b, e |-> st.e - 1]
            ELSE st

RECURSIVE ScaleSteps(_, _)
ScaleSteps(st, n) ==
    IF n = 0 THEN st
    ELSE LET t == ScaleStep(st) IN IF t = st THEN st ELSE ScaleSteps(t, n - 1)

RECURSIVE ScaleRuns(_, _)
ScaleRuns(st, n) ==
    IF n = 0 THEN st
    ELSE LET t == ScaleSteps(st, 11) IN IF t = st THEN st ELSE ScaleRuns(t, n - 1)

\* ScaleStep until it changes nothing: fewer than 11 * 11 * 11 steps, from
\* a value between 10^-325 and 10^309
RECURSIVE Scale(_, _)
Scale(st, n) ==
    IF n = 0 THEN st
    ELSE LET t == ScaleRuns(st, 11) IN IF t = st THEN st ELSE Scale(t, n - 1)

\* the next binary digit of rem / b < 2, and twice what is left
BinaryDigit(st) ==
    IF Less(st.rem, st.b)
    THEN [st EXCEPT !.bits = Append(st.bits, 0), !.rem = Twice(st.rem)]
    ELSE [st EXCEPT !.bits = Append(st.bits, 1), !.rem = Twice(Minus(st.rem, st.b))]

RECURSIVE DigitRun(_, _)
DigitRun(st, n) ==
    IF n = 0 THEN st
    ELSE LET t == BinaryDigit(st) IN IF t = st THEN st ELSE DigitRun(t, n - 1)

\* n more binary digits
RECURSIVE BinaryDigits(_, _)
BinaryDigits(st, n) ==
    IF n = 0 THEN st
    ELSE LET t == DigitRun(st, IF n < 8 THEN n ELSE 8)
         IN IF t = st THEN st ELSE BinaryDigits(t, IF n < 8 THEN 0 ELSE n - 8)

\* a binary64 value: zero, a 53-bit significand bits[1].bits[2..53] times
\* 2^exp, an infinity, or not a number
FloatZero == [kind |-> "zero", neg |-> FALSE, bits |-> <<>>, exp |-> 0]
FloatInf(neg) == [kind |-> "inf", neg |-> neg, bits |-> <<>>, exp |-> 0]
FloatNan == [kind |-> "nan", neg |-> FALSE, bits |-> <<>>, exp |-> 0]

\* the first 53 binary digits of a / b, and twice what is left
Significand(st) == BinaryDigits([bits |-> <<>>, rem |-> st.a, b |-> st.b, e |-> st.e], 53)

\* one more in the last place
Increment(bits) ==
    LET last0 == CHOOSE i \in 1..Len(bits) :
                     bits[i] = 0 /\ \A j \in (i + 1)..Len(bits) : bits[j] = 1
    IN <<>> \o [i \in 1..Len(bits) |->
                   IF i < last0 THEN bits[i] ELSE IF i = last0 THEN 1 ELSE 0]

\* to the nearest of the two neighbours, and to the even one from half way
RoundUp(m) == Less(m.b, m.rem) \/ (m.rem = m.b /\ m.bits[Len(m.bits)] = 1)

Rounded(m) ==
    IF ~RoundUp(m) THEN m
    ELSE IF \A i \in 1..Len(m.bits) : m.bits[i] = 1
         THEN [m EXCEPT !.bits = <<1>> \o Zeros(Len(m.bits) - 1), !.e = m.e + 1]
         ELSE [m EXCEPT !.bits = Increment(m.bits)]

FloatFinite(neg, m) ==
    IF \A i \in 1..Len(m.bits) : m.bits[i] = 0 THEN FloatZero
    ELSE IF m.e > 1023 THEN FloatInf(neg)
    ELSE [kind |-> "finite", neg |-> neg, bits |-> m.bits, exp |-> m.e]

\* num / den as the nearest binary64
RoundToDouble(neg, num, den) ==
    FloatFinite(neg, Rounded(Significand(Scale([a |-> num, b |-> den, e |-> 0], 11))))

\* the exponent written as x; one of more than 9 digits is taken as
\* 999999999, which is far out of range as well
ExponentMagnitude(d) ==
    IF Len(d) > 9 THEN 999999999 ELSE DigitsVal([i \in 1..Len(d) |-> Digits[d[i] + 1]])

DigitValues(x) == StripZeros(<<>> \o [i \in 1..Len(x) |-> DigitVal(x[i])])

ExponentValue(x) ==
    IF Len(x) > 0 /\ x[1] = "-"
    THEN 0 - ExponentMagnitude(DigitValues(Tail(x)))
    ELSE ExponentMagnitude(DigitValues(FloatBody(x)))

\* how many digits of the mantissa m stand after its point
FractionDigits(m) == IF Find(m, <<".">>, 1) = 0 THEN 0 ELSE Len(m) - Find(m, <<".">>, 1)

\* the numeral as d * 10^k
DecimalOf(body) ==
    [d |-> DigitValues(SelectSeq(MantissaText(body), IsDigit)),
     k |-> ExponentValue(ExponentText(body)) - FractionDigits(MantissaText(body))]

FloatOfDecimal(neg, x) ==
    IF Len(x.d) = 0 THEN FloatZero
    ELSE IF Len(x.d) + x.k - 1 >= 309 THEN FloatInf(neg)
    ELSE IF Len(x.d) + x.k <= -325 THEN FloatZero
    ELSE RoundToDouble(neg,
                       x.d \o Zeros(IF x.k >= 0 THEN x.k ELSE 0),
                       <<1>> \o Zeros(IF x.k >= 0 THEN 0 ELSE 0 - x.k))

FloatOfBody(neg, body) ==
    IF IsNan(body) THEN FloatNan
    ELSE IF IsInfinity(body) THEN FloatInf(neg)
    ELSE FloatOfDecimal(neg, DecimalOf(body))

FloatOfText(t) == FloatOfBody(Len(t) > 0 /\ t[1] = "-", FloatBody(t))

\* float(s), for a text that float() accepts
FloatOf(s) == FloatOfText(FloatText(s))

\* x == y for two floats
FloatEq(x, y) == x.kind # "nan" /\ x = y

\* actual.replace("kg/m²", "").replace("years", "").strip()
\* a clean-up that drops "kg/m²" only
CleanUnitsKeepsYears(s) == Strip(Remove(s, <<"k", "g", "/", "m", "²">>))

CleanUnits(s) ==
    Strip(Remove(Remove(s, <<"k", "g", "/", "m", "²">>), <<"y", "e", "a", "r", "s">>))

\* `actual in acceptable_variations`
InVariations(actual, acceptable_variations) ==
    \E i \in 1..Len(acceptable_variations) : acceptable_variations[i] = actual

\* a check that leaves the acceptable variations to its caller
check_answer_correctness_no_variations(actual, expected, acceptable_variations) ==
    \/ actual = expected
    \/ /\ expected.t = "str" /\ actual.t = "str"
       /\ LET actual_clean == CleanUnits(actual.s)
              expected_clean == CleanUnits(expected.s)
          IN /\ IsFloatText(actual_clean)
             /\ IsFloatText(expected_clean)
             /\ FloatEq(FloatOf(actual_clean), FloatOf(expected_clean))

check_answer_correctness(actual, expected, acceptable_variations) ==
    \/ actual = expected
    \/ InVariations(actual, acceptable_variations)
    \/ /\ expected.t = "str" /\ actual.t = "str"
       /\ LET actual_clean == CleanUnits(actual.s)
              expected_clean == CleanUnits(expected.s)
          IN /\ IsFloatText(actual_clean)
             /\ IsFloatText(expected_clean)
             /\ FloatEq(FloatOf(actual_clean), FloatOf(expected_clean))

----------------------------------------------------------------------------
(* EvaluationPipeline.evaluate_single_test, run_full_evaluation *)

\* EvaluationResult.error: None, or str(e)
NoError == [k |-> "none", s |-> ""]

\* the EvaluationResult for a test case, given how the pipeline call ended
\* (reasoning_quality and response_time_ms are not carried)
evaluate_single_test(test_case, r) ==
    IF r.status = "ok"
    THEN LET is_correct == check_answer_correctness(r.value, test_case.expected_answer,
                                                    test_case.acceptable_variations)
         IN [question_key |-> test_case.question.key,
             expected |-> test_case.expected_answer,
             actual |-> r.value,
             confidence |-> r.confidence,
             is_correct |-> is_correct,
             is_acceptable |-> is_correct
                               \/ InVariations(r.value, test_case.acceptable_variations),
             error |-> NoError]
    ELSE [question_key |-> test_case.question.key,
          expected |-> test_case.expected_answer,
          actual |-> PyStr(<<>>),
          confidence |-> 0,
          is_correct |-> FALSE,
          is_acceptable |-> FALSE,
          error |-> [k |-> "str", s |-> r.error]]

\* a fraction num / den, 0 when there is nothing to divide by
Ratio(num, den) == IF den = 0 THEN [num |-> 0, den |-> 1] ELSE [num |-> num, den |-> den]

\* abs(a - b)
AbsDiff(a, b) ==
    LET d == a.num * b.den - b.num * a.den
    IN [num |-> IF d < 0 THEN 0 - d ELSE d, den |-> a.den * b.den]

\* sum of the confidences (hundredths) of the first n results
RECURSIVE SumConfidence(_, _)
SumConfidence(rs, n) ==
    IF n = 0 THEN 0 ELSE SumConfidence(rs, n - 1) + rs[n].confidence

\* a report whose average confidence is taken over all results
make_report_mean_of_all(rs) ==
    LET total_tests == Len(rs)
        passed == Cardinality({i \in 1..Len(rs) : rs[i].is_acceptable})
        accuracy == Ratio(passed, total_tests)
        avg_confidence == Ratio(SumConfidence(rs, Len(rs)), FullConfidence * total_tests)
    IN [total_tests |-> total_tests,
        passed |-> passed,
        failed |-> total_tests - passed,
        accuracy |-> accuracy,
        average_confidence |-> avg_confidence,
        confidence_calibration_error |-> AbsDiff(avg_confidence, accuracy)]

\* the counts and the confidence metrics of the EvaluationReport (lines 361-372)
make_report(rs) ==
    LET total_tests == Len(rs)
        passed == Cardinality({i \in 1..Len(rs) : rs[i].is_acceptable})
        confident == Cardinality({i \in 1..Len(rs) : rs[i].confidence > 0})
        accuracy == Ratio(passed, total_tests)
        avg_confidence == Ratio(SumConfidence(rs, Len(rs)), FullConfidence * confident)
    IN [total_tests |-> total_tests,
        passed |-> passed,
        failed |-> total_tests - passed,
        accuracy |-> accuracy,
        average_confidence |-> avg_confidence,
        confidence_calibration_error |-> AbsDiff(avg_confidence, accuracy)]

NoReport == make_report(<<>>)

\* no run_full_evaluation call has been made
EvalIdle ==
    /\ ti = 1 /\ results = <<>> /\ historical_results = <<>>
    /\ eval_pc = "idle" /\ report = NoReport /\ completed_runs = 0

\* evaluate_single_test awaits generate_answer_with_confidence(patient, question)
EvalAsk ==
    /\ eval_pc = "loop"
    /\ ti <= Len(TestCases)
    /\ patient' = TestCases[ti].patient
    /\ GenCall(TestCases[ti].question, <<>>)
    /\ eval_pc' = "awaiting"
    /\ UNCHANGED <<ti, results, historical_results, report, completed_runs>>
    /\ UNCHANGED <<questions, qi, answered_questions, answers_with_confidence, batch_pc,
                   today, skipped>>
    /\ UNCHANGED <<svc_vars, cond_vars, pure_vars, app_vars>>

\* an evaluate_single_test without its `except Exception`
EvalCollectPropagating ==
    /\ eval_pc = "awaiting"
    /\ pc \in {"returned", "raised"}
    /\ IF pc = "raised"
       THEN /\ eval_pc' = "failed"
            /\ UNCHANGED <<ti, results, historical_results>>
       ELSE LET result == evaluate_single_test(TestCases[ti], ret)
            IN /\ results' = Append(results, result)
               /\ historical_results' = Append(historical_results, result)
               /\ ti' = ti + 1
               /\ eval_pc' = "loop"
    /\ GenReset
    /\ UNCHANGED <<report, completed_runs>>
    /\ UNCHANGED <<svc_vars, batch_vars, cond_vars, pure_vars, app_vars>>

\* the pipeline call is over, by return or by exception: the result is built
\* and appended to results and to self.historical_results (lines 357-359)
EvalCollect ==
    /\ eval_pc = "awaiting"
    /\ pc \in {"returned", "raised"}
    /\ LET result == evaluate_single_test(TestCases[ti], ret)
       IN /\ results' = Append(results, result)
          /\ historical_results' = Append(historical_results, result)
    /\ ti' = ti + 1
    /\ eval_pc' = "loop"
    /\ GenReset
    /\ UNCHANGED <<report, completed_runs>>
    /\ UNCHANGED <<svc_vars, batch_vars, cond_vars, pure_vars, app_vars>>

\* a run_full_evaluation whose metrics come from the tail of the shared history
EvalReportFromHistory ==
    /\ eval_pc = "loop"
    /\ ti > Len(TestCases)
    /\ report' = make_report(SubSeq(historical_results,
                                    Len(historical_results) - Len(TestCases) + 1,
                                    Len(historical_results)))
    /\ eval_pc' = "done"
    /\ completed_runs' = completed_runs + 1
    /\ UNCHANGED <<ti, results, historical_results>>
    /\ UNCHANGED <<svc_vars, batch_vars, gen_vars, cond_vars, pure_vars, app_vars>>

\* the loop is exhausted: the metrics are computed and the report returned
EvalReport ==
    /\ eval_pc = "loop"
    /\ ti > Len(TestCases)
    /\ report' = make_report(results)
    /\ eval_pc' = "done"
    /\ completed_runs' = completed_runs + 1
    /\ UNCHANGED <<ti, results, historical_results>>
    /\ UNCHANGED <<svc_vars, batch_vars, gen_vars, cond_vars, pure_vars, app_vars>>

----------------------------------------------------------------------------
(* Specifications *)

InitService ==
    /\ client \in BOOLEAN
    /\ enable_actor_critic \in BOOLEAN
    /\ enable_confidence \in BOOLEAN
    /\ backend = AnyBackend

BatchIdle ==
    /\ qi = 1 /\ answered_questions = <<>> /\ answers_with_confidence = <<>>
    /\ batch_pc = "loop" /\ skipped = {}

\* a service as constructed, and one process_questions_batch call entered
Init ==
    /\ InitService
    /\ patient \in (IF client THEN {Patient1, PatientSlashDate} ELSE Patients)
    /\ questions \in QuestionSets
    /\ today = Today1
    /\ BatchIdle
    /\ GenIdle
    /\ CondIdle
    /\ EvalIdle
    /\ PureIdle
    /\ AppIdle

Next ==
    \/ BatchSkip
    \/ BatchAsk
    \/ BatchCollect
    \/ BatchPropagate
    \/ BatchReturn
    \/ AnswersRespond
    \/ ActorCall
    \/ ActorResume
    \/ Critic1Call
    \/ Critic1Resume
    \/ RefinerCall
    \/ RefinerResume
    \/ Critic2Call
    \/ Critic2Resume

Spec == Init /\ [][Next]_vars

\* _evaluate_condition applied to one condition and one answers map
InitCond ==
    /\ client = FALSE /\ enable_actor_critic = TRUE /\ enable_confidence = TRUE
    /\ backend = AnyBackend
    /\ patient = Patient1
    /\ questions = <<>>
    /\ today = Today1
    /\ BatchIdle
    /\ GenIdle
    /\ cond_in \in CondInputs
    /\ cond_answers \in CondAnswerMaps
    /\ cond_out = "none"
    /\ EvalIdle
    /\ PureIdle
    /\ AppIdle

NextCond == Evaluate

SpecCond == InitCond /\ [][NextCond]_vars

\* the backend of an evaluation run: an answer that one test case accepts or a
\* native true, a score on either side of 0.8 with one improvement, text
\* that is not JSON, or a call that raises
EvalBackend ==
    [answers |-> {JStr(TestCase1.acceptable_variations[1].s),
                  JStr(TestCase1.acceptable_variations[2].s), JBool(TRUE)},
     refined |-> {JStr(TestCase1.acceptable_variations[1].s),
                  JStr(TestCase1.acceptable_variations[2].s), JBool(TRUE)},
     scores |-> {Score("num", RefineBelow - 1), Score("num", RefineBelow)},
     improvements |-> {ImpList(SubSeq(ImprovementItems, 1, 1))},
     faults |-> {"api_error", "not_json"}]

\* process_questions_batch is not called
BatchUnused ==
    /\ questions = <<>> /\ qi = 1 /\ answered_questions = <<>>
    /\ answers_with_confidence = <<>> /\ batch_pc = "idle" /\ skipped = {}

\* a pipeline as constructed, and one run_full_evaluation call entered
InitEval ==
    /\ client \in BOOLEAN
    /\ enable_actor_critic \in BOOLEAN
    /\ enable_confidence \in BOOLEAN
    /\ backend = EvalBackend
    /\ patient = TestCases[1].patient
    /\ today = Today1
    /\ BatchUnused
    /\ GenIdle
    /\ CondIdle
    /\ ti = 1 /\ results = <<>> /\ historical_results = <<>>
    /\ eval_pc = "loop" /\ report = NoReport /\ completed_runs = 0
    /\ PureIdle
    /\ AppIdle

NextEval ==
    \/ EvalAsk
    \/ EvalCollect
    \/ EvalReport
    \/ ActorCall
    \/ ActorResume
    \/ Critic1Call
    \/ Critic1Resume
    \/ RefinerCall
    \/ RefinerResume
    \/ Critic2Call
    \/ Critic2Resume

SpecEval == InitEval /\ [][NextEval]_vars

\* a further POST /answers arrives after the previous one was answered
RequestStart ==
    /\ http.status # 0
    /\ Len(served) < MaxRequests
    /\ http' = NoResponse
    /\ patient' \in {Patient1, Patient2}
    /\ questions' \in QuestionSets
    /\ qi' = 1 /\ answered_questions' = <<>> /\ answers_with_confidence' = <<>>
    /\ batch_pc' = "loop" /\ skipped' = {}
    /\ GenReset
    /\ UNCHANGED <<today, answers_db, now_s, served>>
    /\ UNCHANGED <<svc_vars, cond_vars, eval_vars, pure_vars, stream_vars, cycle_vars, conc_vars>>

\* a service whose backend answers true or false, or with text that is not
\* JSON, and scores every answer 0.79 with one improvement; the first
\* POST /answers has arrived
InitApi ==
    /\ client = TRUE /\ enable_actor_critic = TRUE /\ enable_confidence = TRUE
    /\ backend = [answers |-> {JBool(TRUE), JBool(FALSE)},
                  refined |-> {JBool(TRUE), JBool(FALSE)},
                  scores |-> {Score("num", RefineBelow - 1)},
                  improvements |-> {ImpList(SubSeq(ImprovementItems, 1, 1))},
                  faults |-> {"not_json"}]
    /\ patient \in {Patient1, Patient2}
    /\ questions \in QuestionSets
    /\ today = Today1
    /\ BatchIdle
    /\ GenIdle
    /\ CondIdle
    /\ EvalIdle
    /\ PureIdle
    /\ AppIdle

NextApi ==
    \/ Next
    \/ RequestStart

SpecApi == InitApi /\ [][NextApi]_vars

\* the same patient and questions go through process_questions_batch and then
\* through generate_answers_stream
NextStream ==
    \/ BatchSkip
    \/ BatchAsk
    \/ BatchCollect
    \/ BatchPropagate
    \/ BatchReturn
    \/ ActorCall
    \/ ActorResume
    \/ Critic1Call
    \/ Critic1Resume
    \/ RefinerCall
    \/ RefinerResume
    \/ Critic2Call
    \/ Critic2Resume
    \/ StreamStart
    \/ StreamAsk
    \/ StreamYield
    \/ StreamPropagate
    \/ StreamEnd

SpecStream == InitApi /\ [][NextStream]_vars

\* the most run_full_evaluation calls made on one pipeline
MaxRuns == 2

\* a run_full_evaluation that starts from an empty history
EvalStartClearing ==
    /\ eval_pc = "done"
    /\ completed_runs < MaxRuns
    /\ ti' = 1
    /\ results' = <<>>
    /\ historical_results' = <<>>
    /\ eval_pc' = "loop"
    /\ UNCHANGED <<report, completed_runs>>
    /\ UNCHANGED <<svc_vars, batch_vars, gen_vars, cond_vars, pure_vars, app_vars>>

\* run_full_evaluation is called again on the same pipeline: `results = []`
\* (line 353), self.historical_results is what the earlier runs left
EvalStart ==
    /\ eval_pc = "done"
    /\ completed_runs < MaxRuns
    /\ ti' = 1
    /\ results' = <<>>
    /\ eval_pc' = "loop"
    /\ UNCHANGED <<historical_results, report, completed_runs>>
    /\ UNCHANGED <<svc_vars, batch_vars, gen_vars, cond_vars, pure_vars, app_vars>>

\* a pipeline as constructed and its first run entered; the backend answers
\* with one low-scored answer or with text that is not JSON
InitHistory ==
    /\ client \in BOOLEAN
    /\ enable_actor_critic = TRUE
    /\ enable_confidence = TRUE
    /\ backend = [answers |-> {JBool(TRUE)},
                  refined |-> {JBool(TRUE)},
                  scores |-> {Score("num", RefineBelow - 1)},
                  improvements |-> {ImpList(SubSeq(ImprovementItems, 1, 1))},
                  faults |-> {"not_json"}]
    /\ patient = TestCases[1].patient
    /\ today = Today1
    /\ BatchUnused
    /\ GenIdle
    /\ CondIdle
    /\ ti = 1 /\ results = <<>> /\ historical_results = <<>>
    /\ eval_pc = "loop" /\ report = NoReport /\ completed_runs = 0
    /\ PureIdle
    /\ AppIdle

NextHistory ==
    \/ NextEval
    \/ EvalStart

SpecHistory == InitHistory /\ [][NextHistory]_vars

----------------------------------------------------------------------------
(* two run_full_evaluation calls on the same pipeline *)

\* _analyze_by_category: zip(self.test_cases, results), counted per tag
TagsOf(test_case) == {test_case.tags[i] : i \in 1..Len(test_case.tags)}
AllTags == UNION {TagsOf(TestCases[i]) : i \in 1..Len(TestCases)}
Zipped(rs) == 1..(IF Len(rs) < Len(TestCases) THEN Len(rs) ELSE Len(TestCases))
analyze_by_category(rs) ==
    LET present == {tag \in AllTags : \E i \in Zipped(rs) : tag \in TagsOf(TestCases[i])}
    IN [tag \in present |->
          [total |-> Cardinality({i \in Zipped(rs) : tag \in TagsOf(TestCases[i])}),
           passed |-> Cardinality({i \in Zipped(rs) : /\ tag \in TagsOf(TestCases[i])
                                                      /\ rs[i].is_acceptable})]]

\* what a run_full_evaluation coroutine keeps across a suspension: its loop
\* position, its results list, and the frame of the pipeline call it awaits
Locals ==
    [ti |-> ti, results |-> results, eval_pc |-> eval_pc, report |-> report,
     patient |-> patient, gen |-> gen_vars]

\* a call that is entered and has not run yet
FreshLocals ==
    [ti |-> 1, results |-> <<>>, eval_pc |-> "loop", report |-> NoReport,
     patient |-> TestCases[1].patient,
     gen |-> <<"idle", NoQuestion, <<>>, NoValue, <<>>, Score("null", 0), ImpNull,
               NothingObserved, <<>>, 0, NoRet>>]

\* the running coroutine is suspended in an awaited backend call (the request
\* is out, nothing has come back), or it has returned
AtSuspension ==
    \/ eval_pc = "done"
    \/ eval_pc = "awaiting" /\ pc \in AwaitStages

\* the event loop goes on with the other coroutine
Switch ==
    /\ other # NoContext
    /\ other.eval_pc # "done"
    /\ AtSuspension
    /\ other' = Locals
    /\ running' = 3 - running
    /\ ti' = other.ti
    /\ results' = other.results
    /\ eval_pc' = other.eval_pc
    /\ report' = other.report
    /\ patient' = other.patient
    /\ pc' = other.gen[1]
    /\ cur_question' = other.gen[2]
    /\ previous_answers' = other.gen[3]
    /\ answer_value' = other.gen[4]
    /\ reasoning' = other.gen[5]
    /\ confidence' = other.gen[6]
    /\ improvements' = other.gen[7]
    /\ observed' = other.gen[8]
    /\ trace' = other.gen[9]
    /\ backend_calls' = other.gen[10]
    /\ ret' = other.gen[11]
    /\ UNCHANGED <<historical_results, completed_runs>>
    /\ UNCHANGED <<questions, qi, answered_questions, answers_with_confidence, batch_pc,
                   today, skipped>>
    /\ UNCHANGED <<svc_vars, cond_vars, pure_vars, api_vars, stream_vars, cycle_vars>>

InitConc ==
    /\ client = TRUE
    /\ enable_actor_critic = TRUE
    /\ enable_confidence = TRUE
    /\ backend = [answers |-> {JNum(33), JNum(34)},
                  refined |-> {JNum(33), JNum(34)},
                  scores |-> {Score("num", RefineBelow)},
                  improvements |-> {ImpList(SubSeq(ImprovementItems, 1, 1))},
                  faults |-> {}]
    /\ patient = TestCases[1].patient
    /\ today = Today1
    /\ BatchUnused
    /\ GenIdle
    /\ CondIdle
    /\ ti = 1 /\ results = <<>> /\ historical_results = <<>>
    /\ eval_pc = "loop" /\ report = NoReport /\ completed_runs = 0
    /\ PureIdle
    /\ ApiIdle
    /\ StreamIdle
    /\ CycleIdle
    /\ running = 1
    /\ other = FreshLocals

NextConc ==
    \/ EvalAsk
    \/ ActorCall
    \/ ActorResume
    \/ Critic1Call
    \/ Critic1Resume
    \/ EvalCollect
    \/ EvalReport
    \/ Switch

SpecConc == InitConc /\ [][NextConc]_vars

----------------------------------------------------------------------------
(* continuous_improvement_cycle *)

CycleInterval == 3600           \* asyncio.sleep(3600)
ImprovementThreshold == 95      \* `report.accuracy < 0.95`, in hundredths

needs_improvement(r) == r.accuracy.num * 100 < ImprovementThreshold * r.accuracy.den

\* `report = await self.run_full_evaluation()`: the call is entered
CycleEvaluate ==
    /\ cycle_pc = "top"
    /\ completed_runs < MaxRuns
    /\ ti' = 1
    /\ results' = <<>>
    /\ eval_pc' = "loop"
    /\ cycle_pc' = "evaluating"
    /\ UNCHANGED <<historical_results, report, completed_runs>>
    /\ UNCHANGED <<hook_calls, slept>>
    /\ UNCHANGED <<svc_vars, batch_vars, gen_vars, cond_vars, pure_vars, api_vars,
                   stream_vars, conc_vars>>

\* a cycle that applies improvements whatever the accuracy is
CycleHookAlways ==
    /\ cycle_pc = "evaluating"
    /\ eval_pc = "done"
    /\ hook_calls' = Append(hook_calls, [cycle |-> completed_runs, report |-> report])
    /\ cycle_pc' = "sleeping"
    /\ UNCHANGED slept
    /\ UNCHANGED <<svc_vars, batch_vars, gen_vars, cond_vars, eval_vars, pure_vars,
                   api_vars, stream_vars, conc_vars>>

\* the report is back: it is logged, _apply_improvements is awaited when the
\* accuracy is under the threshold, and the sleep begins (lines 504-517)
CycleHook ==
    /\ cycle_pc = "evaluating"
    /\ eval_pc = "done"
    /\ hook_calls' = IF needs_improvement(report)
                     THEN Append(hook_calls, [cycle |-> completed_runs, report |-> report])
                     ELSE hook_calls
    /\ cycle_pc' = "sleeping"
    /\ UNCHANGED slept
    /\ UNCHANGED <<svc_vars, batch_vars, gen_vars, cond_vars, eval_vars, pure_vars,
                   api_vars, stream_vars, conc_vars>>

\* the sleep is over: back to the top of `while True`
CycleSleep ==
    /\ cycle_pc = "sleeping"
    /\ slept' = slept + CycleInterval
    /\ cycle_pc' = "top"
    /\ UNCHANGED hook_calls
    /\ UNCHANGED <<svc_vars, batch_vars, gen_vars, cond_vars, eval_vars, pure_vars,
                   api_vars, stream_vars, conc_vars>>

\* a backend whose answers can pass every test case or fail the first two,
\* and whose calls can raise
CycleBackend ==
    [answers |-> {JNum(33), JNum(34)},
     refined |-> {JNum(33), JNum(34)},
     scores |-> {Score("num", RefineBelow)},
     improvements |-> {ImpList(SubSeq(ImprovementItems, 1, 1))},
     faults |-> {"api_error"}]

InitCycle ==
    /\ client = TRUE
    /\ enable_actor_critic = TRUE
    /\ enable_confidence = TRUE
    /\ backend = CycleBackend
    /\ patient = TestCases[1].patient
    /\ today = Today1
    /\ BatchUnused
    /\ GenIdle
    /\ CondIdle
    /\ EvalIdle
    /\ PureIdle
    /\ ApiIdle
    /\ StreamIdle
    /\ cycle_pc = "top" /\ hook_calls = <<>> /\ slept = 0
    /\ ConcIdle

NextCycle ==
    \/ CycleEvaluate
    \/ EvalAsk
    \/ ActorCall
    \/ ActorResume
    \/ Critic1Call
    \/ Critic1Resume
    \/ EvalCollect
    \/ EvalReport
    \/ CycleHook
    \/ CycleSleep

SpecCycle == InitCycle /\ [][NextCycle]_vars

\* a coroutine that is not suspended runs on to its next await, its return or
\* its exception
StageRuns ==
    /\ pc \in {"actor", "critic1"}
    /\ pc' \in AwaitStages \cup {"critic1", "returned", "raised"}

\* an awaited backend call is over (create() has returned or raised) and the
\* event loop resumes the coroutine
CallReturns ==
    /\ pc \in AwaitStages
    /\ pc' \in {"critic1", "returned", "raised"}

\* evaluate_single_test goes on once its pipeline call is over
TestCompletes ==
    /\ eval_pc = "awaiting"
    /\ pc \in {"returned", "raised"}
    /\ eval_pc' = "loop"

\* the event loop resumes a coroutine whose awaited call or sleep is over
SpecCycleFair ==
    /\ SpecCycle
    /\ WF_vars(CycleEvaluate)
    /\ WF_vars(EvalAsk)
    /\ WF_pc(StageRuns)
    /\ WF_pc(CallReturns)
    /\ WF_eval_pc(TestCompletes)
    /\ WF_vars(EvalReport)
    /\ WF_vars(CycleHook)
    /\ WF_vars(CycleSleep)

----------------------------------------------------------------------------
(* Functions applied on their own *)

NoReturn == [status |-> "none", value |-> 0]
Returned(v) == [status |-> "returned", value |-> v]

\* _check_answer_correctness(actual, expected, acceptable_variations): answers
\* with and without a unit, a non-numeric answer, the empty answer and the
\* native booleans, against the expected answers and variations of the test cases
CheckCalls ==
    {[fn |-> "check_answer_correctness", actual |-> a, expected |-> e, variations |-> v] :
        a \in {PyStr(t) : t \in {<<"3", "2", ".", "9">>,
                                    <<"3", "2", ".", "9", " ", "k", "g", "/", "m", "²">>,
                                    <<"3", "2", ".", "9", "0">>,
                                    <<"3", "3">>,
                                    <<"3", "4">>,
                                    <<"3", "4", " ", "y", "e", "a", "r", "s">>,
                                    <<"3", "4", ".", "0">>,
                                    <<"t", "h", "i", "r", "t", "y", "-", "f", "o", "u", "r">>,
                                    <<>>,
                                    <<"y", "e", "a", "r", "s">>,
                                    <<"3", ".", "2", "9", "e", "1">>,
                                    <<"3", "2", ".", "9", "\r">>,
                                    <<"3", "_", "4">>,
                                    <<"3", "2", ".", "9", "0", "0", "0", "0", "0", "0", "0",
                                      "0", "0", "0", "0", "0", "0", "0", "0", "0", "1">>,
                                    <<"n", "a", "n">>}}
              \cup {PyBool(TRUE), PyBool(FALSE)},
        e \in {TestCase1.expected_answer, TestCase2.expected_answer,
               TestCase3.expected_answer},
        v \in {<<>>, TestCase1.acceptable_variations, TestCase2.acceptable_variations}}

CheckAnswer ==
    /\ fn_call.fn = "check_answer_correctness"
    /\ fn_ret.status = "none"
    /\ fn_ret' = Returned(check_answer_correctness(fn_call.actual, fn_call.expected,
                                                   fn_call.variations))
    /\ UNCHANGED fn_call
    /\ UNCHANGED <<svc_vars, batch_vars, gen_vars, cond_vars, eval_vars, app_vars>>

\* _calculate_age(date_of_birth) with datetime.now() on every day of two years
AgeCalls ==
    {c \in [fn : {"calculate_age"},
            date_of_birth : {<<"1", "9", "9", "0", "-", "0", "6", "-", "1", "5">>,
                             <<"1", "9", "8", "0", "-", "0", "1", "-", "0", "1">>,
                             <<"2", "0", "0", "0", "-", "0", "2", "-", "2", "9">>,
                             <<"1", "9", "8", "9", "-", "1", "2", "-", "3", "1">>,
                             <<"1", "9", "8", "U+0660", "-", "0", "1", "-", "1", "U+0665">>},
            now : [year : {Today1.year - 1, Today1.year}, month : 1..12, day : 1..31]] :
        c.now.day <= DaysInMonth(c.now.year, c.now.month)}

CalculateAge ==
    /\ fn_call.fn = "calculate_age"
    /\ fn_ret.status = "none"
    /\ fn_ret' = Returned(calculate_age(fn_call.date_of_birth, fn_call.now))
    /\ UNCHANGED fn_call
    /\ UNCHANGED <<svc_vars, batch_vars, gen_vars, cond_vars, eval_vars, app_vars>>

\* the type coercion of the Actor and of the Refiner applied to one value of
\* the backend's "answer" / "refined_answer"
CoerceCalls ==
    [fn : {"coerce"},
     stage : {"actor", "refiner"},
     question : {Q("boolean", <<"a">>, <<>>), Q("text", <<"b", "m", "i">>, <<>>)},
     answer : {JStr(t) : t \in {S_true, S_True, <<"T", "R", "U", "E">>, S_yes,
                                 <<"Y", "e", "s">>, <<"1">>, <<"0">>, S_false,
                                 <<"n", "o">>, <<>>, <<" ", "t", "r", "u", "e">>,
                                 <<"3", "2", ".", "5">>}}
              \cup {JBool(TRUE), JBool(FALSE), JNull}
              \cup {JNum(n) : n \in {-1, 0, 1, 2}}
              \cup {JList(n) : n \in 0..2}
              \cup {JObj(n) : n \in 0..1}]

CoerceAnswer ==
    /\ fn_call.fn = "coerce"
    /\ fn_ret.status = "none"
    /\ fn_ret' = Returned(IF fn_call.stage = "actor"
                          THEN coerce_answer(fn_call.question, fn_call.answer)
                          ELSE coerce_refined(fn_call.question, fn_call.answer))
    /\ UNCHANGED fn_call
    /\ UNCHANGED <<svc_vars, batch_vars, gen_vars, cond_vars, eval_vars, app_vars>>

\* a detection that reports overconfidence from 10% of the results on
identify_problem_areas_from_a_tenth(rs, categories) ==
    LET IsLow(c) == 5 * c.accuracy.num < 4 * c.accuracy.den
        low == SelectSeq(categories, IsLow)
        overconfident == {i \in 1..Len(rs) : ~rs[i].is_acceptable /\ rs[i].confidence > 70}
        slow_responses == {i \in 1..Len(rs) : rs[i].response_time_ms > 5000}
    IN [i \in 1..Len(low) |-> [kind |-> "low_accuracy", category |-> low[i].name, n |-> 0]]
       \o (IF 10 * Cardinality(overconfident) >= Len(rs)
           THEN <<[kind |-> "overconfident", category |-> "", n |-> Cardinality(overconfident)]>>
           ELSE <<>>)
       \o (IF slow_responses # {}
           THEN <<[kind |-> "slow", category |-> "", n |-> Cardinality(slow_responses)]>>
           ELSE <<>>)

\* _identify_problem_areas: one entry per message appended to `problems`;
\* accuracy is a fraction, confidence is in hundredths, and
\* len(overconfident) > len(results) * 0.1 is 10 * len(overconfident) > len(results)
identify_problem_areas(rs, categories) ==
    LET IsLow(c) == 5 * c.accuracy.num < 4 * c.accuracy.den
        low == SelectSeq(categories, IsLow)
        overconfident == {i \in 1..Len(rs) : ~rs[i].is_acceptable /\ rs[i].confidence > 70}
        slow_responses == {i \in 1..Len(rs) : rs[i].response_time_ms > 5000}
    IN [i \in 1..Len(low) |-> [kind |-> "low_accuracy", category |-> low[i].name, n |-> 0]]
       \o (IF 10 * Cardinality(overconfident) > Len(rs)
           THEN <<[kind |-> "overconfident", category |-> "", n |-> Cardinality(overconfident)]>>
           ELSE <<>>)
       \o (IF slow_responses # {}
           THEN <<[kind |-> "slow", category |-> "", n |-> Cardinality(slow_responses)]>>
           ELSE <<>>)

\* the most results of one _identify_problem_areas call
MaxResults == 11

\* results: a wrong answers with confidence 0.71, b wrong answers with
\* confidence 0.7, then acceptable ones, the last result taking t ms;
\* categories: up to two entries of _analyze_by_category's dict
ProblemCalls ==
    LET Result(ok, c, t) == [is_acceptable |-> ok, confidence |-> c, response_time_ms |-> t]
        Results(n, a, b, t) ==
            [i \in 1..n |-> Result(i > a + b,
                                   IF i <= a THEN 71 ELSE IF i <= a + b THEN 70 ELSE 95,
                                   IF i = n THEN t ELSE 1200)]
        Accuracies == {Ratio(0, 1), Ratio(3, 4), Ratio(4, 5), Ratio(5, 6)}
        Category(name, acc) == [name |-> name, accuracy |-> acc]
    IN [fn : {"identify_problem_areas"},
        results : {Results(n, a, b, t) : n \in 0..MaxResults, a \in 0..2, b \in 0..1,
                                         t \in {5000, 5001}},
        categories : {<<>>}
            \cup {<<Category("bmi", x)>> : x \in Accuracies}
            \cup {<<Category("bmi", x), Category("age", y)>> : x \in Accuracies, y \in Accuracies}]

IdentifyProblemAreas ==
    /\ fn_call.fn = "identify_problem_areas"
    /\ fn_ret.status = "none"
    /\ fn_ret' = Returned(identify_problem_areas(fn_call.results, fn_call.categories))
    /\ UNCHANGED fn_call
    /\ UNCHANGED <<svc_vars, batch_vars, gen_vars, cond_vars, eval_vars, app_vars>>

\* the 20 of `[:20]` (main.py)
ListLimit == 20

\* the most answers stored when /answers/list is called
MaxStored == 21

\* answers_db after n /answers requests, one second apart, that stored one
\* answer each
StoredAnswers(n) ==
    [i \in 1..n |->
        [key |-> [authorization_id |-> i, question_key |-> <<"a">>],
         value |-> [authorization_id |-> i, question |-> Q("boolean", <<"a">>, <<>>),
                    value |-> PyBool(i % 2 = 0), confidence |-> 90,
                    reasoning |-> <<"r">>]]]

\* list_available_answers: len(answers_db) and list(answers_db.values())[:20]
ListAnswers ==
    /\ fn_call.fn = "list_available_answers"
    /\ fn_ret.status = "none"
    /\ fn_ret' = Returned([total |-> Len(answers_db),
                           answers |-> [i \in 1..(IF Len(answers_db) < ListLimit
                                                  THEN Len(answers_db) ELSE ListLimit) |->
                                           answers_db[i].value]])
    /\ UNCHANGED fn_call
    /\ UNCHANGED <<svc_vars, batch_vars, gen_vars, cond_vars, eval_vars, app_vars>>

\* one function call with its arguments, the service and the pipeline at rest
InitPure ==
    /\ client = FALSE /\ enable_actor_critic = TRUE /\ enable_confidence = TRUE
    /\ backend = AnyBackend
    /\ patient = Patient1
    /\ today = Today1
    /\ BatchUnused
    /\ GenIdle
    /\ CondIdle
    /\ EvalIdle
    /\ fn_call \in CheckCalls \cup AgeCalls \cup CoerceCalls \cup ProblemCalls
                    \cup {[fn |-> "list_available_answers"]}
    /\ fn_ret = NoReturn
    /\ http = NoResponse /\ now_s = 0 /\ served = <<>>
    /\ StreamIdle
    /\ CycleIdle
    /\ ConcIdle
    /\ IF fn_call.fn = "list_available_answers"
       THEN answers_db \in {StoredAnswers(n) : n \in 0..MaxStored}
       ELSE answers_db = <<>>

NextPure ==
    \/ CheckAnswer
    \/ CalculateAge
    \/ CoerceAnswer
    \/ IdentifyProblemAreas
    \/ ListAnswers

SpecPure == InitPure /\ [][NextPure]_vars

----------------------------------------------------------------------------
(* Properties of generate_answer_with_confidence *)

Count(seq, x) == Cardinality({i \in 1..Len(seq) : seq[i] = x})

\* the Refiner has been entered, or is being entered, for the current question
RefinerInvoked == pc = "refiner" \/ Count(trace, "refiner") > 0

\* the first Critic pass returned a score below 0.8 and a non-empty list
FirstPassAsksRefinement ==
    /\ observed.score1.k = "num"
    /\ observed.score1.n < 80
    /\ observed.improvements1.k = "list"
    /\ Len(observed.improvements1.items) > 0

\* C1: the Refiner is invoked if and only if the first Critic pass returned
\* confidence < 0.8 and a non-empty improvements list and actor-critic mode is
\* enabled; before the first Critic pass has returned it is never invoked.
C1_RefinerIff ==
    /\ observed.critic_returns = 0 => ~RefinerInvoked
    /\ observed.critic_returns >= 1 =>
          (RefinerInvoked <=> (FirstPassAsksRefinement /\ enable_actor_critic))

\* C2: with actor-critic mode disabled, the answer returned carries exactly the
\* value and the reasoning the Actor's first pass produced.
C2_DisabledReturnsActor ==
    (~enable_actor_critic /\ pc = "returned") =>
        /\ ret.value = observed.actor_value
        /\ ret.reasoning = observed.actor_reasoning
        /\ ~RefinerInvoked

\* a backend is configured, actor-critic is off, and an answer came back
C2_Witness ==
    /\ ~enable_actor_critic /\ client /\ pc = "returned"
    /\ ret.value = PyBool(TRUE)
    /\ ret.reasoning = R_actor

\* the coroutines of one question never exceed one Refiner and two Critic
\* passes, and a returned refinement ran exactly Actor, Critic, Refiner, Critic
OneRefinement ==
    /\ Count(trace, "refiner") <= 1
    /\ Count(trace, "critic") <= 2
    /\ Count(trace, "actor") <= 1
    /\ (pc = "returned" /\ RefinerInvoked) =>
          trace = <<"actor", "critic", "refiner", "critic">>

\* C3 as first stated: after a refinement the returned confidence is the
\* second Critic pass's score.
C3_Original ==
    /\ OneRefinement
    /\ (pc = "returned" /\ RefinerInvoked) =>
          /\ ret.value = observed.refined_value
          /\ ret.confidence = observed.score2.n

\* C3: refinement is bounded to one attempt (Refiner at most once, Critic at
\* most twice); after a refinement the returned value is the refined answer,
\* and the returned confidence is the second Critic pass's score when
\* confidence scoring is enabled and 1.0 when it is disabled; no further
\* refinement happens even when the second score is below 0.8.
C3_OneRefinement ==
    /\ OneRefinement
    /\ (pc = "returned" /\ RefinerInvoked) =>
          /\ ret.value = observed.refined_value
          /\ ret.confidence =
                (IF enable_confidence THEN observed.score2.n ELSE FullConfidence)

\* returned after a refinement whose second score is still below 0.8
C3_Witness ==
    /\ pc = "returned" /\ RefinerInvoked
    /\ enable_confidence
    /\ observed.score2 = Score("num", 79)
    /\ ret.confidence = 79

\* the score of the Critic pass that came back last
LastScore == IF RefinerInvoked THEN observed.score2 ELSE observed.score1

\* C4: every AnswerWithConfidence returned, and every one kept in the batch's
\* result list, has 0.0 <= confidence <= 1.0, after the first pass and after
\* the refined pass: with confidence scoring on it is the number the last
\* Critic pass gave (NaN, null and a number outside [0, 1] are never returned).
C4_ConfidenceInRange ==
    /\ pc = "returned" => (0 <= ret.confidence /\ ret.confidence <= 100)
    /\ (pc = "returned" /\ enable_confidence) =>
          /\ LastScore.k = "num"
          /\ ret.confidence = LastScore.n
    /\ \A i \in 1..Len(answers_with_confidence) :
          /\ 0 <= answers_with_confidence[i].confidence
          /\ answers_with_confidence[i].confidence <= 100

\* the first pass scored out of range, the refined pass in range: returned
C4_Witness ==
    /\ pc = "returned" /\ RefinerInvoked
    /\ observed.score1.n = -1
    /\ observed.score2.n = 0
    /\ ret.confidence = 0

TypeMatches(question, value) ==
    /\ question.type = "text" => value.t = "str"
    /\ question.type = "boolean" => value.t = "bool"

\* C5: the value returned for a question is of the question's declared type:
\* a string for a text question, a native boolean for a boolean question,
\* after the first pass and after the refined pass.
C5_ValueTyped ==
    /\ pc \in {"critic1", "critic1_await", "refiner", "refiner_await", "critic2",
              "critic2_await"} => TypeMatches(cur_question, answer_value)
    /\ pc = "returned" => TypeMatches(ret.question, ret.value)
    /\ \A i \in 1..Len(answers_with_confidence) :
          TypeMatches(answers_with_confidence[i].question, answers_with_confidence[i].value)

\* a text question answered with the JSON true of the backend, as "True"
C5_Witness ==
    /\ client /\ pc = "returned"
    /\ ret.question.type = "text"
    /\ ret.value = PyStr(S_True)

----------------------------------------------------------------------------
(* Properties of _evaluate_condition *)

C_a_true_and_b_false == <<"{", "a", "}", " ", "=", " ", "t", "r", "u", "e", " ", "a", "n", "d", " ", "{", "b", "}", " ", "=", " ", "f", "a", "l", "s", "e">>

\* key k has been answered and the string form of its value is w, ignoring case
AnsweredAs(answers, k, w) ==
    \E i \in 1..Len(answers) :
        answers[i].key = k /\ Lower(StrOf(answers[i].value)) = w

\* C6: `{a} = true` is false when a has not been answered and true when the
\* string form of a's value equals "true" ignoring case (the native True
\* included); `{a} = true and {b} = false` is true only when both clauses are.
C6_Condition ==
    cond_out # "none" =>
        /\ cond_in = C_a_true =>
              (cond_out = "true" <=> AnsweredAs(cond_answers, <<"a">>, S_true))
        /\ cond_in = C_a_true_and_b_false =>
              (cond_out = "true" <=> (/\ AnsweredAs(cond_answers, <<"a">>, S_true)
                                      /\ AnsweredAs(cond_answers, <<"b">>, S_false)))

\* the conjunction evaluated to true on the native booleans True and False
C6_Witness ==
    /\ cond_in = C_a_true_and_b_false
    /\ cond_answers = <<[key |-> <<"a">>, value |-> PyBool(TRUE)],
                        [key |-> <<"b">>, value |-> PyBool(FALSE)]>>
    /\ cond_out = "true"

----------------------------------------------------------------------------
(* Properties of process_questions_batch *)

\* the first n questions without those at the positions in skip, in order
RECURSIVE Restrict(_, _, _)
Restrict(qs, n, skip) ==
    IF n = 0 THEN <<>>
    ELSE Restrict(qs, n - 1, skip) \o (IF n \in skip THEN <<>> ELSE <<qs[n]>>)

\* the questions of the answers in the result list
AnsweredList == [i \in 1..Len(answers_with_confidence) |-> answers_with_confidence[i].question]

\* a clause of the question's condition has the shape {key} = value
ConditionedOn(question, key) ==
    LET parts == Split(question.visible_if, S_and)
    IN \E i \in 1..Len(parts) :
          LET m == ClauseMatch(Strip(parts[i])) IN m.ok /\ m.key = key

\* what holds of the questions the loop has passed over so far
SkippedLeaveNothing ==
    /\ \A j \in skipped :
          /\ j < qi
          /\ Len(questions[j].visible_if) > 0
          /\ ~DictHas(answered_questions, questions[j].key)
          /\ \A i \in 1..Len(answers_with_confidence) :
                answers_with_confidence[i].question # questions[j]
          /\ \A k \in (j + 1)..(qi - 1) :
                ConditionedOn(questions[k], questions[j].key) => k \in skipped
    /\ \A j \in 1..(qi - 1) : Len(questions[j].visible_if) = 0 => j \notin skipped
    /\ AnsweredList = Restrict(questions, qi - 1, skipped)

\* the loop moves to the next question
StepOver == batch_pc = "loop" /\ qi' = qi + 1

\* C7: a question whose visible_if evaluates to false against the accumulated
\* map is passed over with no Actor, Critic or Refiner call, gets no entry in
\* the result list and no key in the accumulated map, so a later question
\* conditioned on its key is passed over too; a question with an empty
\* visible_if is always answered.
C7_Skipped ==
    /\ []SkippedLeaveNothing
    /\ [][StepOver =>
            (is_skipped(questions[qi], answered_questions)
             <=> (/\ qi \in skipped'
                  /\ pc = "idle"
                  /\ UNCHANGED <<gen_vars, answered_questions, answers_with_confidence>>))]_vars

\* the first answer hid the second question, and with it the third
C7_Witness ==
    /\ batch_pc = "done"
    /\ questions = QuestionSet1
    /\ skipped = {2, 3}
    /\ Len(answers_with_confidence) = 1
    /\ Len(answered_questions) = 1

\* the key and value of each answer in the result list, in list order
AnsweredPairs ==
    [i \in 1..Len(answers_with_confidence) |->
        [key |-> answers_with_confidence[i].question.key,
         value |-> answers_with_confidence[i].value]]

\* C8: the questions are answered in the given order and the answers are
\* returned in that order; the prior-answers context a question receives
\* lists the key and value of exactly the questions answered before it in
\* this batch, in the order they were answered.
C8_OrderAndContext ==
    /\ AnsweredList = Restrict(questions, qi - 1, skipped)
    /\ pc # "idle" =>
          /\ cur_question = questions[qi]
          /\ previous_answers = AnsweredPairs
          /\ ~DictHas(previous_answers, cur_question.key)

\* the third question is being answered with two earlier answers as context
C8_Witness ==
    /\ pc = "critic1"
    /\ qi = 3
    /\ Len(previous_answers) = 2
    /\ previous_answers[1].key = <<"a">>
    /\ previous_answers[2].key = <<"b">>

\* C9: with no backend configured nothing raises, for any patient and any
\* question, and no backend call is made: the Actor's value is the
\* simulation's, a native boolean for a boolean question and a string for a
\* text question.
C9_SimulationNeverRaises ==
    ~client =>
        /\ pc # "raised"
        /\ batch_pc # "failed"
        /\ ret.status # "raised"
        /\ backend_calls = 0
        /\ pc \in {"critic1", "returned"} => TypeMatches(cur_question, answer_value)
        /\ pc = "returned" => TypeMatches(ret.question, ret.value)
        /\ \A i \in 1..Len(answers_with_confidence) :
              TypeMatches(answers_with_confidence[i].question,
                          answers_with_confidence[i].value)

----------------------------------------------------------------------------
(* Properties of run_full_evaluation *)

\* a result that records a failed pipeline call
RecordsFailure(r) ==
    /\ r.error # NoError
    /\ ~r.is_correct
    /\ ~r.is_acceptable
    /\ r.confidence = 0

\* C10: run_full_evaluation does not fail when the pipeline raises on a test
\* case: the case is recorded with is_correct and is_acceptable false,
\* confidence 0.0 and a non-null error, the loop goes on to the next test
\* case, and the report returned has total_tests = the number of test cases.
C10_RunCoversAllCases ==
    /\ [](/\ eval_pc \in {"loop", "awaiting", "done"}
          /\ Len(results) = ti - 1
          /\ \A i \in 1..Len(results) :
                /\ results[i].question_key = TestCases[i].question.key
                /\ results[i].error # NoError => RecordsFailure(results[i])
          /\ eval_pc = "done" =>
                /\ Len(results) = Len(TestCases)
                /\ report.total_tests = Len(TestCases)
          /\ eval_pc = "loop" => pc = "idle"
          /\ eval_pc = "awaiting" =>
                pc \in {"actor", "critic1", "refiner", "critic2", "returned", "raised"}
                       \cup AwaitStages)
    /\ [][(eval_pc = "awaiting" /\ pc = "raised") =>
            /\ results' = Append(results, results'[Len(results')])
            /\ RecordsFailure(results'[Len(results')])
            /\ ti' = ti + 1
            /\ eval_pc' = "loop"]_vars

\* a report was returned although the first and the third test case raised
\* and the second did not
C10_Witness ==
    /\ eval_pc = "done"
    /\ report.total_tests = Len(TestCases)
    /\ RecordsFailure(results[1])
    /\ results[2].error = NoError
    /\ RecordsFailure(results[3])
    /\ report.failed >= 2

----------------------------------------------------------------------------
(* Properties of _check_answer_correctness *)

\* the floating-point number a text denotes once "kg/m²" and "years" are
\* dropped, in thousandths; -1 for a text that denotes no number. The text
\* 32.90000000000000001 denotes the floating-point number that 32.9 denotes.
Thousandths(t) ==
    CASE t \in {<<"3", "2", ".", "9">>,
                <<"3", "2", ".", "9", " ", "k", "g", "/", "m", "²">>,
                <<"3", "2", ".", "9", "0">>,
                <<"3", ".", "2", "9", "e", "1">>,
                <<"3", "2", ".", "9", "\r">>,
                <<"3", "2", ".", "9", "0", "0", "0", "0", "0", "0", "0",
                  "0", "0", "0", "0", "0", "0", "0", "0", "0", "1">>} -> 32900
      [] t = <<"3", "3">> -> 33000
      [] t = <<"3", "2", ".", "8", "7">> -> 32870
      [] t \in {<<"3", "4">>,
                <<"3", "4", " ", "y", "e", "a", "r", "s">>,
                <<"3", "4", ".", "0">>,
                <<"3", "_", "4">>} -> 34000
      [] OTHER -> -1

\* C11: the check returns (it does not raise) and accepts the answer iff it
\* equals the expected answer, or is one of the acceptable variations, or both
\* are strings that denote the same number once "kg/m²" and "years" are dropped.
C11_Correctness ==
    (fn_call.fn = "check_answer_correctness" /\ fn_ret.status # "none") =>
        /\ fn_ret.status = "returned"
        /\ fn_ret.value =
             (\/ fn_call.actual = fn_call.expected
              \/ \E i \in 1..Len(fn_call.variations) : fn_call.variations[i] = fn_call.actual
              \/ /\ fn_call.actual.t = "str" /\ fn_call.expected.t = "str"
                 /\ Thousandths(fn_call.actual.s) >= 0
                 /\ Thousandths(fn_call.actual.s) = Thousandths(fn_call.expected.s))
        /\ (fn_call.expected = PyStr(<<"3", "2", ".", "9">>)
            /\ fn_call.actual = PyStr(<<"3", "2", ".", "9", " ", "k", "g", "/", "m", "²">>)) => fn_ret.value
        /\ (fn_call.expected = PyBool(TRUE) /\ fn_call.actual = PyBool(TRUE)) => fn_ret.value
        /\ (fn_call.expected = PyStr(<<"3", "4">>)
            /\ fn_call.actual = PyStr(<<"t", "h", "i", "r", "t", "y", "-", "f", "o", "u", "r">>)) => ~fn_ret.value

\* "34 years" was accepted for "34" with no variations given
C11_Witness ==
    /\ fn_call.fn = "check_answer_correctness"
    /\ fn_call.expected = PyStr(<<"3", "4">>)
    /\ fn_call.actual = PyStr(<<"3", "4", " ", "y", "e", "a", "r", "s">>)
    /\ fn_call.variations = <<>>
    /\ fn_ret.status = "returned"
    /\ fn_ret.value

----------------------------------------------------------------------------
(* Properties of _calculate_age *)

\* the birth dates of the calls, as numbers
BirthOf(d) ==
    CASE d = <<"1", "9", "9", "0", "-", "0", "6", "-", "1", "5">> -> [year |-> 1990, month |-> 6, day |-> 15]
      [] d = <<"1", "9", "8", "0", "-", "0", "1", "-", "0", "1">> -> [year |-> 1980, month |-> 1, day |-> 1]
      [] d = <<"2", "0", "0", "0", "-", "0", "2", "-", "2", "9">> -> [year |-> 2000, month |-> 2, day |-> 29]
      [] d = <<"1", "9", "8", "9", "-", "1", "2", "-", "3", "1">> -> [year |-> 1989, month |-> 12, day |-> 31]
      [] d = <<"1", "9", "8", "U+0660", "-", "0", "1", "-", "1", "U+0665">> -> [year |-> 1980, month |-> 1, day |-> 15]

\* C12: the age is today's year minus the birth year, minus one when today's
\* (month, day) is earlier than the birth (month, day); for 1990-06-15 it is 33
\* on 2024-06-14 and 34 on 2024-06-15 and on every later day of 2024.
C12_Age ==
    (fn_call.fn = "calculate_age" /\ fn_ret.status # "none") =>
        LET b == BirthOf(fn_call.date_of_birth)
            now == fn_call.now
            earlier == 100 * now.month + now.day < 100 * b.month + b.day
        IN /\ fn_ret.status = "returned"
           /\ fn_ret.value = now.year - b.year - (IF earlier THEN 1 ELSE 0)
           /\ (fn_call.date_of_birth = <<"1", "9", "9", "0", "-", "0", "6", "-", "1", "5">> /\ now.year = 2024) =>
                 /\ (now.month = 6 /\ now.day = 14) => fn_ret.value = 33
                 /\ (now.month > 6 \/ (now.month = 6 /\ now.day >= 15)) => fn_ret.value = 34

\* the day before the 34th birthday
C12_Witness ==
    /\ fn_call.fn = "calculate_age"
    /\ fn_call.date_of_birth = <<"1", "9", "9", "0", "-", "0", "6", "-", "1", "5">>
    /\ fn_call.now = [year |-> 2024, month |-> 6, day |-> 14]
    /\ fn_ret.status = "returned"
    /\ fn_ret.value = 33

----------------------------------------------------------------------------
(* Properties of _critic_evaluate_answer *)

\* C13: whenever actor-critic mode is disabled or no backend is configured, the
\* Critic returns confidence 0.9 and an empty improvements list and makes no
\* backend call, whatever the question and the proposed answer.
C13_CriticBypass ==
    /\ []((~enable_actor_critic \/ ~client) =>
            /\ pc \notin {"critic1_await", "critic2_await"}
            /\ observed.critic_returns > 0 =>
                  /\ observed.score1 = Score("num", 90)
                  /\ observed.improvements1 = ImpList(<<>>)
                  /\ observed.critic_returns = 1)
    /\ [][((pc = "critic1" \/ pc = "critic2") /\ (~enable_actor_critic \/ ~client)) =>
            /\ backend_calls' = backend_calls
            /\ observed'.critic_returns = observed.critic_returns + 1
            /\ confidence' = Score("num", 90)
            /\ improvements' = ImpList(<<>>)]_vars

\* the Critic was bypassed for a backend-made answer: one backend call in all
C13_Witness ==
    /\ pc = "returned"
    /\ client /\ ~enable_actor_critic
    /\ observed.critic_returns = 1
    /\ observed.score1 = Score("num", 90)
    /\ backend_calls = 1

----------------------------------------------------------------------------
(* Properties of the answer coercion *)

\* the string form of the value is "true", "yes" or "1", ignoring case
MatchesTruthyWord(x) ==
    Lower(JsonStr(x)) \in {<<"t", "r", "u", "e">>, <<"y", "e", "s">>, <<"1">>}

\* C14: for a boolean question, a non-boolean backend value is coerced to true
\* exactly when it matches one of "true", "yes", "1" ignoring case and to false
\* otherwise, by the Actor and by the Refiner alike.
C14_Original ==
    (/\ fn_call.fn = "coerce"
     /\ fn_ret.status # "none"
     /\ fn_call.question.type = "boolean"
     /\ fn_call.answer.k # "bool") =>
        /\ fn_ret.status = "returned"
        /\ fn_ret.value = PyBool(MatchesTruthyWord(fn_call.answer))

----------------------------------------------------------------------------
(* Properties of the backend calls *)

\* C15: a backend response that is not JSON, or lacks a key required for its
\* call ("answer"; "confidence_score" and "improvements"; "refined_answer"),
\* makes generate_answer_with_confidence raise.
C15_Original ==
    (/\ observed.responses # <<>>
     /\ observed.responses[Len(observed.responses)] # "ok") =>
        /\ pc = "raised"
        /\ ret.status = "raised"
        /\ ret.error \in {"JSONDecodeError", "KeyError"}

\* the stages of one question's pipeline in the order of lines 550-568
StageOrder == <<"actor", "critic", "refiner", "critic">>

\* the backend calls of the current question that are over: each returned a
\* completion, or the last one raised
CallsOver == Len(observed.responses) + (IF ret.error = "APIError" THEN 1 ELSE 0)

\* C16: the stages of one question run one after the other in the order Actor,
\* Critic, Refiner, Critic; at most one backend call is outstanding, exactly
\* while the pipeline is suspended in it, and a call is made only when every
\* earlier call of the question has returned; a question's pipeline runs only
\* while the batch awaits it, with the answers of all earlier visible
\* questions already collected.
C16_Sequential ==
    /\ [](/\ Len(trace) <= Len(StageOrder)
          /\ trace = SubSeq(StageOrder, 1, Len(trace))
          /\ backend_calls <= Len(trace)
          /\ backend_calls = CallsOver + (IF pc \in AwaitStages THEN 1 ELSE 0)
          /\ pc # "idle" =>
                /\ batch_pc \in {"awaiting", "failed"}
                /\ cur_question = questions[qi]
                /\ previous_answers = answered_questions
                /\ Len(answers_with_confidence) = Cardinality((1..(qi - 1)) \ skipped))
    /\ [][backend_calls' > backend_calls =>
            /\ backend_calls' = backend_calls + 1
            /\ backend_calls = Len(observed.responses)
            /\ pc \notin AwaitStages /\ pc' \in AwaitStages
            /\ batch_pc = "awaiting" /\ batch_pc' = "awaiting"
            /\ trace' = SubSeq(StageOrder, 1, Len(trace) + 1)
            /\ UNCHANGED <<qi, answered_questions, answers_with_confidence, observed>>]_vars
    /\ [][(pc \in AwaitStages /\ pc' # pc) =>
            /\ pc' \notin AwaitStages
            /\ backend_calls' = backend_calls
            /\ trace' = trace
            /\ UNCHANGED <<qi, answered_questions, answers_with_confidence>>]_vars

\* the second question of a batch is suspended in its fourth backend call,
\* the three before it have returned
C16_Witness ==
    /\ qi > 1
    /\ answers_with_confidence # <<>>
    /\ trace = StageOrder
    /\ pc = "critic2_await"
    /\ backend_calls = 4
    /\ observed.responses = <<"ok", "ok", "ok">>

\* a completion on which the call that received it raises
FailingResponses == {"not_json", "no_answer", "no_reasoning", "no_score"}

\* C17: a call that returns has made 0 backend calls without a client, 1 with a
\* client and actor-critic disabled, 2 when the Critic ran without refinement
\* and 4 when the answer was refined; a failing backend call (create() raises,
\* or its completion cannot be read) is the last one of its
\* generate_answer_with_confidence call, which raises.
C17_NoRetry ==
    /\ [](/\ pc = "returned" =>
                /\ ~client => backend_calls = 0
                /\ (client /\ ~enable_actor_critic) => backend_calls = 1
                /\ (client /\ enable_actor_critic) =>
                      /\ Len(trace) \in {2, 4}
                      /\ backend_calls = Len(trace)
          /\ \A i \in 1..Len(observed.responses) :
                observed.responses[i] \in FailingResponses =>
                    /\ i = Len(observed.responses)
                    /\ pc = "raised"
          /\ backend_calls <= Len(observed.responses) + 1
          /\ backend_calls <= Len(trace)
          /\ ret.error = "APIError" =>
                /\ pc = "raised"
                /\ backend_calls = Len(observed.responses) + 1)
    /\ [][pc = "raised" => backend_calls' <= backend_calls]_vars
    /\ [][(pc \in AwaitStages /\ pc' = "raised") =>
            /\ backend_calls' = backend_calls
            /\ trace' = trace]_vars

\* the Refiner's create() raised after the Actor's and the Critic's calls had
\* returned: three calls made, none made again
C17_Witness ==
    /\ client /\ enable_actor_critic
    /\ pc = "raised"
    /\ ret.error = "APIError"
    /\ trace = <<"actor", "critic", "refiner">>
    /\ observed.responses = <<"ok", "ok">>
    /\ backend_calls = 3

----------------------------------------------------------------------------
(* Properties of the evaluation report *)

\* the results that count for the average confidence
Confident == {i \in 1..Len(results) : results[i].confidence > 0}

\* the sum of the confidences (hundredths) of the results in S
RECURSIVE ConfidenceOver(_)
ConfidenceOver(S) ==
    IF S = {} THEN 0
    ELSE LET i == CHOOSE j \in S : TRUE
         IN results[i].confidence + ConfidenceOver(S \ {i})

\* C18: in a report, passed + failed = total_tests, passed counts the
\* acceptable results, accuracy = passed / total_tests, average_confidence is
\* the mean of the confidences > 0 (0 when there are none), the calibration
\* error is |average_confidence - accuracy|, and everything is 0 for no results.
C18_Report ==
    /\ eval_pc = "done" =>
        LET acc == report.accuracy
            avg == report.average_confidence
            err == report.confidence_calibration_error
            d == avg.num * acc.den - acc.num * avg.den
        IN /\ report.total_tests = Len(results)
           /\ report.passed + report.failed = report.total_tests
           /\ report.passed = Cardinality({i \in 1..Len(results) : results[i].is_acceptable})
           /\ acc.num * report.total_tests = report.passed * acc.den
           /\ IF Confident = {}
              THEN avg.num = 0
              ELSE avg.num * FullConfidence * Cardinality(Confident)
                      = ConfidenceOver(Confident) * avg.den
           /\ err.num * avg.den * acc.den = err.den * (IF d < 0 THEN 0 - d ELSE d)
           /\ acc.den > 0 /\ avg.den > 0 /\ err.den > 0
    /\ LET empty == make_report(<<>>)
       IN /\ empty.total_tests = 0 /\ empty.passed = 0 /\ empty.failed = 0
          /\ empty.accuracy.num = 0
          /\ empty.average_confidence.num = 0
          /\ empty.confidence_calibration_error.num = 0

\* a report over a run in which one test case errored, one passed and one failed
\* with a confidence
C18_Witness ==
    /\ eval_pc = "done"
    /\ \E i, j, k \in 1..Len(results) :
          /\ results[i].error.k = "str" /\ results[i].confidence = 0
          /\ results[j].is_acceptable /\ results[j].confidence > 0
          /\ ~results[k].is_acceptable /\ results[k].confidence > 0

\* C19: _identify_problem_areas reports low accuracy for exactly the categories
\* with accuracy < 0.8, overconfidence exactly when the wrong results with
\* confidence > 0.7 are more than 10% of the results, and slow responses exactly
\* when some result took more than 5000 ms.
C19_ProblemAreas ==
    (fn_call.fn = "identify_problem_areas" /\ fn_ret.status = "returned") =>
        LET problems == fn_ret.value
            rs == fn_call.results
            cats == fn_call.categories
            Reported(kind) == {i \in 1..Len(problems) : problems[i].kind = kind}
            wrong_and_sure == Cardinality({i \in 1..Len(rs) :
                                             /\ rs[i].is_acceptable = FALSE
                                             /\ rs[i].confidence >= 71})
        IN /\ \A k \in 1..Len(cats) :
                Cardinality({i \in Reported("low_accuracy") : problems[i].category = cats[k].name})
                    = IF cats[k].accuracy.num * 100 < 80 * cats[k].accuracy.den THEN 1 ELSE 0
           /\ Cardinality(Reported("low_accuracy")) <= Len(cats)
           /\ Cardinality(Reported("overconfident"))
                    = IF wrong_and_sure * 100 > Len(rs) * 10 THEN 1 ELSE 0
           /\ Cardinality(Reported("slow"))
                    = IF \E i \in 1..Len(rs) : rs[i].response_time_ms >= 5001 THEN 1 ELSE 0
           /\ Len(problems) = Cardinality(Reported("low_accuracy"))
                              + Cardinality(Reported("overconfident"))
                              + Cardinality(Reported("slow"))

\* one wrong and confident answer among ten results is not reported, a category
\* at 0.75 is, one at 0.8 is not, and a response of 5001 ms is
C19_Witness ==
    /\ fn_call.fn = "identify_problem_areas"
    /\ fn_ret.status = "returned"
    /\ Len(fn_call.results) = 10
    /\ ~fn_call.results[1].is_acceptable /\ fn_call.results[1].confidence = 71
    /\ fn_call.results[2].is_acceptable
    /\ fn_call.results[10].response_time_ms = 5001
    /\ Len(fn_call.categories) = 2
    /\ fn_call.categories[1].accuracy = [num |-> 3, den |-> 4]
    /\ fn_call.categories[2].accuracy = [num |-> 4, den |-> 5]
    /\ Len(fn_ret.value) = 2
    /\ fn_ret.value[1].kind = "low_accuracy"
    /\ fn_ret.value[2].kind = "slow"

----------------------------------------------------------------------------
(* Properties of the evaluation history *)

\* C20: historical_results only grows at its end, an entry in it never changes,
\* and every completed run has added one result per test case: k completed
\* runs over the N test cases have put k * N entries into it.
C20_AppendOnly ==
    /\ [](/\ eval_pc = "loop" =>
                Len(historical_results) = completed_runs * Len(TestCases) + Len(results)
          /\ eval_pc = "awaiting" =>
                Len(historical_results) = completed_runs * Len(TestCases) + Len(results)
          /\ eval_pc = "done" =>
                /\ completed_runs >= 1
                /\ Len(historical_results) = completed_runs * Len(TestCases)
                /\ \A i \in 1..Len(TestCases) :
                      historical_results[(completed_runs - 1) * Len(TestCases) + i]
                          = results[i])
    /\ [][/\ Len(historical_results') >= Len(historical_results)
          /\ SubSeq(historical_results', 1, Len(historical_results)) = historical_results
          /\ Len(historical_results') <= Len(historical_results) + 1]_vars

\* two runs have completed and the second one's results differ from the first's
C20_Witness ==
    /\ eval_pc = "done"
    /\ completed_runs = 2
    /\ Len(historical_results) = 2 * Len(TestCases)
    /\ historical_results[1] # historical_results[Len(TestCases) + 1]

----------------------------------------------------------------------------
(* Properties of the returned improvements and confidence *)

\* C24 as stated: the returned improvements are null exactly when the first
\* Critic pass returned an empty list.
C24_Original ==
    pc = "returned" =>
        (ret.improvements = ImpNull <=> observed.improvements1 = ImpList(<<>>))

\* the improvements values of a first pass that Python takes for false: [],
\* null, false, 0, "" and {}
FalsyImprovements ==
    {ImpList(<<>>), ImpNull, ImpValue(JBool(FALSE)), ImpValue(JNum(0)), ImpValue(JStr(<<>>)),
     ImpValue(JObj(0))}

\* C24: after a refinement the returned improvements are the non-empty list of
\* the first Critic pass, whatever the second pass sent; a returned answer has
\* null improvements exactly when the first pass's improvements were false in
\* Python's sense (an empty list, null, false, 0, "" or {}), and carries the
\* first pass's non-empty list otherwise.
C24_FirstPassImprovements ==
    pc = "returned" =>
        /\ observed.critic_returns >= 1
        /\ Len(trace) = 4 =>
              /\ observed.critic_returns = 2
              /\ observed.improvements1.k = "list"
              /\ observed.improvements1.items # <<>>
              /\ ret.improvements = observed.improvements1
        /\ ret.improvements = ImpNull <=> observed.improvements1 \in FalsyImprovements
        /\ ret.improvements # ImpNull =>
              /\ ret.improvements = observed.improvements1
              /\ ret.improvements.k = "list"
              /\ ret.improvements.items # <<>>

\* a refined answer has come back with the first pass's improvements
C24_Witness ==
    /\ pc = "returned"
    /\ Len(trace) = 4
    /\ observed.critic_returns = 2
    /\ ret.improvements = observed.improvements1
    /\ ret.improvements # ImpNull

\* C25: with enable_confidence false every returned confidence is 1.0, and a
\* first Critic score below 0.8 with non-empty improvements still sends the
\* answer through the Refiner and the second Critic pass.
C25_ConfidenceOff ==
    /\ []((~enable_confidence /\ pc = "returned") =>
            /\ ret.confidence = 100
            /\ (/\ observed.score1.k = "num" /\ observed.score1.n < 80
                /\ observed.improvements1.k = "list" /\ observed.improvements1.items # <<>>) =>
                    /\ trace = <<"actor", "critic", "refiner", "critic">>
                    /\ observed.critic_returns = 2)
    /\ [][(/\ ~enable_confidence
           /\ pc \in {"critic1", "critic1_await"}
           /\ observed'.critic_returns = 1
           /\ observed'.score1.k = "num" /\ observed'.score1.n < 80
           /\ observed'.improvements1.k = "list" /\ observed'.improvements1.items # <<>>) =>
                pc' = "refiner"]_vars

\* confidence scoring is off, the answer was refined on a first score of 0.79,
\* and the second pass's score is not the returned confidence
C25_Witness ==
    /\ ~enable_confidence
    /\ pc = "returned"
    /\ observed.score1 = Score("num", 79)
    /\ observed.critic_returns = 2
    /\ observed.score2.n # 100
    /\ ret.confidence = 100

----------------------------------------------------------------------------
(* Properties of clauses that are not of the form {key} = value *)

\* the stripped clause c reads "{", a key without "}", "}", "=" between
\* optional blanks, and a value
HasShape(c) ==
    \E i \in 3..Len(c) : \E j \in (i + 1)..(Len(c) - 1) :
        /\ c[1] = "{"
        /\ c[i] = "}"
        /\ \A k \in 2..(i - 1) : c[k] # "}"
        /\ \A k \in (i + 1)..(j - 1) : IsSpace(c[k])
        /\ c[j] = "="

\* the clauses of the condition under evaluation
Clauses ==
    LET parts == Split(cond_in, <<" ", "a", "n", "d", " ">>)
    IN [i \in 1..Len(parts) |-> Strip(parts[i])]

\* C26: a clause that is not of the form {key} = value counts as true: a
\* non-empty condition made of such clauses only is true (the question is not
\* skipped), and a conjunction is true exactly when its clauses of that form are.
C26_ShapelessClause ==
    (cond_out # "none" /\ cond_in # <<>>) =>
        LET shaped == {i \in 1..Len(Clauses) : HasShape(Clauses[i])}
        IN /\ shaped = {} =>
                /\ cond_out = "true"
                /\ ~is_skipped(Q("boolean", <<"q">>, cond_in), cond_answers)
           /\ cond_out = "true" <=>
                \A i \in shaped : evaluate_single(Clauses[i], cond_answers)

\* "maybe and {a} = true" has evaluated to true on a = True
C26_Witness ==
    /\ cond_out = "true"
    /\ Len(Clauses) = 2
    /\ ~HasShape(Clauses[1])
    /\ HasShape(Clauses[2])
    /\ cond_answers # <<>>

----------------------------------------------------------------------------
(* Properties of the evaluation results *)

\* C27: in every result of evaluate_single_test is_acceptable equals
\* is_correct, so the report's passed count is the number of correct results.
C27_AcceptableIsCorrect ==
    /\ \A i \in 1..Len(results) : results[i].is_acceptable = results[i].is_correct
    /\ \A i \in 1..Len(historical_results) :
          historical_results[i].is_acceptable = historical_results[i].is_correct
    /\ eval_pc = "done" =>
          report.passed = Cardinality({i \in 1..Len(results) : results[i].is_correct})

\* the first test case (expected "32.9") was passed by the answer "33", which
\* is one of its acceptable variations only
C27_Witness ==
    /\ eval_pc = "done"
    /\ results[1].actual # results[1].expected
    /\ results[1].actual = TestCases[1].acceptable_variations[2]
    /\ results[1].is_correct
    /\ report.passed >= 1

----------------------------------------------------------------------------
(* Properties of a failing batch *)

\* C23: when a question's pipeline fails inside process_questions_batch the
\* batch fails with that error, no later question is attempted, and the
\* /answers request ends with status 500, no answers and nothing stored.
C23_BatchFails ==
    /\ [](/\ batch_pc = "failed" =>
                /\ pc = "raised"
                /\ ret.status = "raised"
                /\ cur_question = questions[qi]
                /\ http.status \in {0, 500}
          /\ http.status = 500 =>
                /\ batch_pc = "failed"
                /\ http.answers = <<>>
                /\ http.detail = ret.error
                /\ answers_db = <<>>
          /\ http.status = 200 => batch_pc = "done" /\ pc = "idle")
    /\ [][pc = "raised" =>
            /\ batch_pc' = "failed"
            /\ UNCHANGED <<qi, gen_vars, answers_with_confidence, answered_questions,
                           answers_db>>
            /\ http'.status \in {0, 500}]_vars

\* the second question failed after the first was answered: the request got
\* 500 and no answer, and the third question was never asked
C23_Witness ==
    /\ http.status = 500
    /\ Len(answers_with_confidence) = 1
    /\ qi = 2
    /\ Len(questions) = 3
    /\ answers_db = <<>>

----------------------------------------------------------------------------
(* Properties of the stored answers *)

\* C22: with more than 20 answers stored, list_available_answers returns the
\* 20 most recently stored ones (the last 20 in storage order), and total is
\* the number of stored answers.
C22_Original ==
    (/\ fn_call.fn = "list_available_answers"
     /\ fn_ret.status = "returned"
     /\ Len(answers_db) > 20) =>
        /\ fn_ret.value.total = Len(answers_db)
        /\ Len(fn_ret.value.answers) = 20
        /\ \A i \in 1..20 :
              fn_ret.value.answers[i] = answers_db[Len(answers_db) - 20 + i].value

\* the answers request r stored, as (question key, value) with the value stored
\* last for the key
StoredBy(r) ==
    {[question_key |-> r.stored[i].question.key, value |-> r.stored[i].value] :
        i \in {j \in 1..Len(r.stored) :
                 \A k \in (j + 1)..Len(r.stored) :
                    r.stored[k].question.key # r.stored[j].question.key}}

\* C29: what a successful /answers request stored stays in answers_db under
\* its authorization id and question key with the value it produced; no other
\* request overwrites it.
C29_Original ==
    \A n \in 1..Len(served) :
        served[n].status = 200 =>
            \A a \in StoredBy(served[n]) :
                LET key == [authorization_id |-> served[n].authorization_id,
                            question_key |-> a.question_key]
                IN /\ DictHas(answers_db, key)
                   /\ DictGet(answers_db, key).value = a.value

----------------------------------------------------------------------------
(* Properties of the streaming path *)

\* C30 as stated: the stream yields exactly one record per input question.
C30_Original ==
    stream_pc \in {"done", "failed"} => Len(yielded) = Len(questions)

\* C30: the stream asks every question in input order with no prior answers
\* and without evaluating visible_if, and yields one record per question until
\* a pipeline fails, which ends it; a stream that ends normally has a record
\* for every question, also for those process_questions_batch skipped.
C30_Stream ==
    /\ [](/\ stream_pc # "idle" =>
                /\ Len(yielded) = si - 1
                /\ \A i \in 1..Len(yielded) : yielded[i].question_key = questions[i].key
          /\ stream_pc = "awaiting" =>
                /\ si <= Len(questions)
                /\ cur_question = questions[si]
                /\ previous_answers = <<>>
          /\ stream_pc = "failed" => pc = "raised" /\ Len(yielded) < Len(questions)
          /\ stream_pc = "done" =>
                /\ Len(yielded) = Len(questions)
                /\ batch_pc = "done" =>
                      /\ Len(answers_with_confidence) = Len(questions) - Cardinality(skipped)
                      /\ \A i \in skipped :
                            /\ is_skipped(questions[i], answered_questions)
                            /\ yielded[i].question_key = questions[i].key)
    /\ [][(stream_pc = "loop" /\ si <= Len(questions)) =>
            (stream_pc' = "awaiting" /\ pc' = "actor")]_vars

\* the batch skipped a question whose condition was false and the stream
\* yielded an answer for each of the three questions
C30_Witness ==
    /\ stream_pc = "done"
    /\ batch_pc = "done"
    /\ Len(questions) = 3
    /\ skipped # {}
    /\ Len(answers_with_confidence) < 3
    /\ Len(yielded) = 3

----------------------------------------------------------------------------
(* Properties of the continuous-improvement loop *)

\* C21 as stated: every cycle triggers the hook with that cycle's report.
C21_Original ==
    cycle_pc = "sleeping" =>
        /\ Len(hook_calls) = completed_runs
        /\ hook_calls[Len(hook_calls)].report = report

HookedThisCycle ==
    \E i \in 1..Len(hook_calls) :
        hook_calls[i] = [cycle |-> completed_runs, report |-> report]

\* C21: every cycle runs the full evaluation, then triggers the hook with
\* that cycle's report exactly when its accuracy is under 0.95, then sleeps
\* 3600 seconds before the next cycle; the loop has no exit and goes on to a
\* next cycle after every sleep.
C21_Cycle ==
    /\ [](/\ cycle_pc \in {"top", "evaluating", "sleeping"}
          /\ cycle_pc = "sleeping" =>
                /\ eval_pc = "done"
                /\ report = make_report(results)
                /\ Len(results) = Len(TestCases)
                /\ HookedThisCycle <=> needs_improvement(report)
                /\ slept = (completed_runs - 1) * CycleInterval
          /\ cycle_pc = "top" => slept = completed_runs * CycleInterval
          /\ \A i \in 1..Len(hook_calls) :
                /\ needs_improvement(hook_calls[i].report)
                /\ \A j \in 1..Len(hook_calls) :
                      hook_calls[i].cycle = hook_calls[j].cycle => i = j)
    /\ [][/\ (cycle_pc = "top" /\ cycle_pc' # "top") =>
                (cycle_pc' = "evaluating" /\ eval_pc' = "loop" /\ results' = <<>>)
          /\ (cycle_pc = "evaluating" /\ cycle_pc' # "evaluating") =>
                (eval_pc = "done" /\ cycle_pc' = "sleeping" /\ slept' = slept)
          /\ (cycle_pc = "sleeping" /\ cycle_pc' # "sleeping") =>
                (/\ cycle_pc' = "top"
                 /\ slept' = slept + CycleInterval
                 /\ hook_calls' = hook_calls)]_vars
    /\ \A n \in 0..(MaxRuns - 1) : (completed_runs = n) ~> (completed_runs = n + 1)

\* a cycle whose report has full accuracy sleeps without a hook call, after a
\* cycle that triggered the hook
C21_Witness ==
    /\ cycle_pc = "sleeping"
    /\ completed_runs = 2
    /\ ~needs_improvement(report)
    /\ Len(hook_calls) = 1
    /\ hook_calls[1].cycle = 1

----------------------------------------------------------------------------
(* Properties of two interleaved run_full_evaluation calls *)

Coroutine(k) == IF running = k THEN Locals ELSE other

RECURSIVE IsMerge(_, _, _)
\* h is an interleaving of a and b that keeps the order of each
IsMerge(h, a, b) ==
    IF h = <<>>
    THEN a = <<>> /\ b = <<>>
    ELSE \/ a # <<>> /\ Head(h) = Head(a) /\ IsMerge(Tail(h), Tail(a), b)
         \/ b # <<>> /\ Head(h) = Head(b) /\ IsMerge(Tail(h), a, Tail(b))

\* C28: when two run_full_evaluation calls interleave at their suspension
\* points, each call's report is computed from its own results, one per test
\* case and paired with its test case, and the shared history holds every
\* result of both calls, each once.
C28_Interleaved ==
    /\ \A k \in {1, 2} :
          LET c == Coroutine(k)
          IN /\ \A i \in 1..Len(c.results) :
                   /\ i <= Len(TestCases)
                   /\ c.results[i].question_key = TestCases[i].question.key
                   /\ c.results[i].expected = TestCases[i].expected_answer
             /\ c.eval_pc = "done" =>
                   /\ Len(c.results) = Len(TestCases)
                   /\ c.report = make_report(c.results)
                   /\ c.report.total_tests = Len(TestCases)
                   /\ \A tag \in AllTags :
                         analyze_by_category(c.results)[tag].total =
                            Cardinality({i \in 1..Len(TestCases) : tag \in TagsOf(TestCases[i])})
    /\ Len(historical_results) = Len(Coroutine(1).results) + Len(Coroutine(2).results)
    /\ IsMerge(historical_results, Coroutine(1).results, Coroutine(2).results)
    /\ eval_pc # "done" /\ other.eval_pc # "done" /\ other # FreshLocals =>
          other.gen[1] \in AwaitStages

\* both calls have returned, their results differ, and their appends to the
\* history alternated
C28_Witness ==
    /\ Coroutine(1).eval_pc = "done"
    /\ Coroutine(2).eval_pc = "done"
    /\ Coroutine(1).results # Coroutine(2).results
    /\ Coroutine(1).report # Coroutine(2).report
    /\ historical_results # Coroutine(1).results \o Coroutine(2).results
    /\ historical_results # Coroutine(2).results \o Coroutine(1).results

====
